---- MODULE Spec2Model ----
(***************************************************************************)
(* Content Suite backend: the chunker, the reranker, the prompt assembler, *)
(* content generation, the inbox, the image-audit verdict policy and the   *)
(* approve/reject governance workflow, as state machines.                  *)
(*                                                                         *)
(* Conventions                                                             *)
(*  - Python None / a missing dict key is the empty sequence <<>> for an   *)
(*    optional value and "" for an optional string that the code reads     *)
(*    as (x or "").                                                        *)
(*  - A similarity s in [0,1] is held as the integer 100*s, so the code's  *)
(*    score w*1000.0 + s*100.0 is the integer w*1000 + (100*s).            *)
(***************************************************************************)
EXTENDS Integers, Sequences, FiniteSets, TLC

VARIABLES
    \* ---- JSON extraction
    llm_text,       \* the text a model answered, as tokens
    extracted,      \* what the two extractors made of it
    \* ---- manual JSON: normalisation, validation, the manual row
    model_output,   \* the JSON value the manual model's answer parsed to
    validated,      \* what normalisation and validation made of it
    manual_rows,    \* the brand_manuals rows inserted, with their manual_json
    persist_response, \* what the creation request answered
    \* ---- chunker (app/services/chunking.py)
    document,       \* the manual dict handed to chunk_manual
    chunked,        \* what chunk_manual(document) returned or raised
    rechunked,      \* what a second chunk_manual(document) returned or raised
    \* ---- prompt assembler (build_generation_prompt)
    prompt_args,    \* its arguments: content_type, brief, rag_chunks
    prompt_msgs,    \* the messages it returned (<<>> before the call)
    \* ---- reranker (app/services/rerank.py)
    chunks,         \* the candidate list handed to rerank_chunks
    content_type,   \* its content_type argument ("" before the call)
    keep_k,         \* its keep_k argument
    reranked,       \* the list it returned
    rr_pc,          \* "input" before the call, "done" after it
    \* ---- record store tables
    content_items,  \* content id -> row, for the ids that exist
    brand_manuals,  \* brand id -> its manual ids, oldest first
    approvals,      \* the approvals table, in insertion order
    audit_images,   \* reports of content-item audits, in insertion order
    brand_audit_images, \* reports of brand audits, in insertion order
    brand_manual_chunks, \* manual id -> its embedded chunk rows
    requested_by,   \* content id -> id of the caller whose request made it
    \* ---- content generation, the inbox, manual creation
    gen,            \* the last generation request: its steps and its answer
    inbox_response, \* what the last inbox request returned
    manual_req,     \* the manual creation in flight
    \* ---- requests
    req,            \* request slot -> the approve/reject request in flight
    n_started,      \* requests (approve, reject, audit) started so far
    n_updates,      \* content id -> status updates applied by approve/reject
    response,       \* request slot -> what its last approve/reject returned
    audit_response  \* what the last audit handler returned

vars == << llm_text, extracted, model_output, validated, manual_rows,
          persist_response, document, chunked, rechunked, prompt_args, prompt_msgs,
          brand_manual_chunks, requested_by, gen, inbox_response, manual_req,
          chunks, content_type, keep_k, reranked, rr_pc,
           content_items, brand_manuals, approvals, audit_images,
           brand_audit_images, req, n_started, n_updates, response,
           audit_response >>

manual_json_vars == << model_output, validated, manual_rows, persist_response >>
parse_vars == << llm_text, extracted, manual_json_vars >>
chunk_vars == << document, chunked, rechunked >>
prompt_vars == << prompt_args, prompt_msgs >>
content_vars == << brand_manual_chunks, requested_by, gen, inbox_response,
                  manual_req >>
ext_vars == << parse_vars, chunk_vars, prompt_vars, content_vars >>
rr_vars == << chunks, content_type, keep_k, reranked, rr_pc >>
store_vars == << content_items, brand_manuals, approvals, audit_images,
                brand_audit_images >>
req_vars == << req, n_started, n_updates, response >>

-----------------------------------------------------------------------------
(* Bounds of the model *)

MaxChunks == 3      \* longest candidate list
MaxKeepK == 3       \* largest keep_k
MaxAudits == 1      \* audit requests per behaviour
MaxRequests == 3    \* approve/reject requests per behaviour
MaxGenerations == 2 \* generation requests per behaviour
MaxManuals == 2     \* manual versions per brand
ManyItems == 51     \* content items of the large initial store
MaxText == 5        \* tokens of the longest model answer

-----------------------------------------------------------------------------
(* Strings *)

startswith(s, prefix) ==
    Len(prefix) <= Len(s) /\ SubSeq(s, 1, Len(prefix)) = prefix

\* the characters str.strip() removes (those the model's texts hold)
Whitespace == { " ", "\n", "\t" }

RECURSIVE lstrip(_)
lstrip(s) ==
    IF Len(s) > 0 /\ SubSeq(s, 1, 1) \in Whitespace
    THEN lstrip(SubSeq(s, 2, Len(s))) ELSE s

RECURSIVE rstrip(_)
rstrip(s) ==
    IF Len(s) > 0 /\ SubSeq(s, Len(s), Len(s)) \in Whitespace
    THEN rstrip(SubSeq(s, 1, Len(s) - 1)) ELSE s

strip(s) == rstrip(lstrip(s))

Min(a, b) == IF a <= b THEN a ELSE b
Max(a, b) == IF a >= b THEN a ELSE b

\* an off-by-one slice, seq[:k+1]
SlicePrefixOneMore(seq, k) == SubSeq(seq, 1, Min(k + 1, Len(seq)))

\* Python's seq[:k]
SlicePrefix(seq, k) ==
    IF k >= 0 THEN SubSeq(seq, 1, Min(k, Len(seq)))
    ELSE SubSeq(seq, 1, Max(0, Len(seq) + k))

-----------------------------------------------------------------------------
(* Chunker.  A manual is a Python dict: a function from the keys it holds  *)
(* to their values, a key it does not hold being outside its DOMAIN.  A    *)
(* list of strings is a sequence; an Optional[str] is <<>> for None and    *)
(* <<s>> for the string s; length_guidelines keeps its insertion order as  *)
(* a sequence of <<key, value>> pairs.                                     *)

EmptyDict == << >>

\* a lookup that never finds the key
Get_missing(d, key, default) == default

\* d.get(key, default)
Get(d, key, default) == IF key \in DOMAIN d THEN d[key] ELSE default

\* sep.join(items)
RECURSIVE Join(_, _)
Join(sep, items) ==
    IF Len(items) = 0 THEN ""
    ELSE IF Len(items) = 1 THEN items[1]
    ELSE items[1] \o sep \o Join(sep, Tail(items))

\* str(x) / f"{x}" of an Optional[str]: None prints as "None"
PyStr(w) == IF w = <<>> THEN "None" ELSE w[1]

\* x or "" of an Optional[str]
StrOrEmpty(w) == IF w = <<>> \/ w[1] = "" THEN "" ELSE w[1]

\* an add that appends whatever it is given
add_unchecked(section, text) ==
    << [section |-> section, chunk_text |-> text, metadata |-> EmptyDict] >>

\* chunk_manual.add: the chunks it appends, none for a blank text
add(section, text) ==
    IF strip(text) = "" THEN << >>
    ELSE << [section |-> section, chunk_text |-> strip(text),
             metadata |-> EmptyDict] >>

\* [f"{k}: {v}" for k, v in lg.items()]
LengthLines(lg) == [i \in 1..Len(lg) |-> lg[i][1] \o ": " \o lg[i][2]]

\* [f"{i.get('type')}: {i.get('text')}" for i in good]
GoodLines(good) ==
    [i \in 1..Len(good) |->
        PyStr(Get(good[i], "type", <<>>)) \o ": "
            \o PyStr(Get(good[i], "text", <<>>))]

\* [f"{i.get('type')}: {i.get('text')} (why: {i.get('why','')})" for i in bad]
BadLines(bad) ==
    [i \in 1..Len(bad) |->
        PyStr(Get(bad[i], "type", <<>>)) \o ": "
            \o PyStr(Get(bad[i], "text", <<>>))
            \o " (why: " \o PyStr(Get(bad[i], "why", <<"">>)) \o ")"]

ChunkResult(cs) == [ok |-> TRUE, exc |-> "", chunks |-> cs]
ChunkRaised(exc) == [ok |-> FALSE, exc |-> exc, chunks |-> << >>]
NotRun == [ok |-> FALSE, exc |-> "not run", chunks |-> << >>]
NoDocument == EmptyDict

\* chunk_manual(manual): manual["tone"]["description"] is indexed, every
\* other entry is read with .get and a default
chunk_manual(manual) ==
    IF "tone" \notin DOMAIN manual THEN ChunkRaised("KeyError")
    ELSE IF "description" \notin DOMAIN manual["tone"] THEN ChunkRaised("KeyError")
    ELSE
      LET tone == manual["tone"]
          m == Get(manual, "messaging", EmptyDict)
          sr == Get(manual, "style_rules", EmptyDict)
          lg == Get(sr, "length_guidelines", << >>)
          vg == Get(manual, "visual_guidelines", EmptyDict)
          ex == Get(manual, "examples", EmptyDict)
          good == Get(ex, "good", << >>)
          bad == Get(ex, "bad", << >>)
      IN ChunkResult(
            add("tone.description", tone["description"])
         \o add("tone.dos", Join("\n", Get(tone, "dos", << >>)))
         \o add("tone.donts", Join("\n", Get(tone, "donts", << >>)))
         \o add("messaging.value_props", Join("\n", Get(m, "value_props", << >>)))
         \o add("messaging.taglines", Join("\n", Get(m, "taglines", << >>)))
         \o add("messaging.forbidden_claims",
                Join("\n", Get(m, "forbidden_claims", << >>)))
         \o add("messaging.preferred_terms",
                Join("\n", Get(m, "preferred_terms", << >>)))
         \o add("messaging.forbidden_terms",
                Join("\n", Get(m, "forbidden_terms", << >>)))
         \o add("style_rules.reading_level", Get(sr, "reading_level", ""))
         \o (IF Len(lg) > 0
             THEN add("style_rules.length_guidelines", Join("\n", LengthLines(lg)))
             ELSE << >>)
         \o add("visual.colors", Join("\n", Get(vg, "colors", << >>)))
         \o add("visual.logo_rules", Join("\n", Get(vg, "logo_rules", << >>)))
         \o add("visual.typography", Join("\n", Get(vg, "typography", << >>)))
         \o add("visual.image_style", Join("\n", Get(vg, "image_style", << >>)))
         \o add("visual.notes", StrOrEmpty(Get(vg, "notes", << >>)))
         \o (IF Len(good) > 0
             THEN add("examples.good", Join("\n\n", GoodLines(good)))
             ELSE << >>)
         \o (IF Len(bad) > 0
             THEN add("examples.bad", Join("\n\n", BadLines(bad)))
             ELSE << >>)
         \o add("approval_checklist",
                Join("\n", Get(manual, "approval_checklist", << >>)))
         \o add("assumptions", Join("\n", Get(manual, "assumptions", << >>))))

\* ---- the documents chunk_manual is run on.  Each section is absent
\* (<<>>) or present with one of a few contents (<<contents>>): a validated
\* manual's defaults, blank texts, and populated texts.

ToneVariants ==
    { << >>,
      << [dos |-> << "Habla claro" >>] >>,
      << [description |-> ""] >>,
      << [description |-> "", dos |-> << >>, donts |-> << >>] >>,
      << [description |-> "Cercano y directo", dos |-> << "", " " >>,
          donts |-> << "Sin jerga", "Sin gritos" >>] >> }

MessagingVariants ==
    { << >>,
      << EmptyDict >>,
      << [forbidden_terms |-> << "X" >>] >>,
      << [value_props |-> << >>, taglines |-> << >>, forbidden_claims |-> << >>,
          preferred_terms |-> << >>, forbidden_terms |-> << "X" >>] >>,
      << [value_props |-> << "Energia natural", "Sin azucar" >>,
          taglines |-> << " " >>, forbidden_claims |-> << "cura la fatiga" >>,
          preferred_terms |-> << >>, forbidden_terms |-> << >>] >> }

StyleRulesVariants ==
    { << >>,
      << EmptyDict >>,
      << [reading_level |-> "simple", length_guidelines |-> << >>] >>,
      << [reading_level |-> "medium",
          length_guidelines |-> << << "titulo", "<= 6 palabras" >>,
                                   << "guion_15s", "60-90 palabras" >> >>] >> }

VisualVariants ==
    { << >>,
      << [colors |-> << >>, logo_rules |-> << >>, typography |-> << >>,
          image_style |-> << >>, notes |-> << >>] >>,
      << [colors |-> << "Azul" >>, logo_rules |-> << "Logo visible", "Fondo claro" >>,
          typography |-> << >>, image_style |-> << "\t" >>,
          notes |-> << "  Sin filtros " >>] >> }

ExamplesVariants ==
    { << >>,
      << [good |-> << >>, bad |-> << >>] >>,
      << [good |-> << [type |-> << "post" >>, text |-> << "Recarga tu dia" >>,
                       why |-> << >>] >>,
          bad |-> << [type |-> << "post" >>, text |-> << "Cura todo" >>,
                      why |-> << "claim medico" >>],
                     [type |-> << "ad" >>, text |-> << "" >>, why |-> << >>] >>] >> }

ChecklistVariants == { << >>, << << >> >>, << << "Sin claims medicos" >> >> }
AssumptionsVariants == { << >>, << << >> >>, << << "Publico adulto" >> >> }

\* the dict entry of an optional section
Entry(key, w) == IF w = << >> THEN EmptyDict ELSE (key :> w[1])

Manual(tone, messaging, style_rules, visual, examples, checklist, assumptions) ==
    Entry("tone", tone) @@ Entry("messaging", messaging)
        @@ Entry("style_rules", style_rules)
        @@ Entry("visual_guidelines", visual) @@ Entry("examples", examples)
        @@ Entry("approval_checklist", checklist)
        @@ Entry("assumptions", assumptions)

Manuals ==
    { Manual(t, m, s, v, e, c, a) :
        t \in ToneVariants, m \in MessagingVariants, s \in StyleRulesVariants,
        v \in VisualVariants, e \in ExamplesVariants, c \in ChecklistVariants,
        a \in AssumptionsVariants }

\* chunk_manual(document), the first run
ChunkManual ==
    /\ chunked = NotRun
    /\ chunked' = chunk_manual(document)
    /\ UNCHANGED << parse_vars, document, rechunked, prompt_vars, content_vars, rr_vars, store_vars, req_vars,
                    audit_response >>

\* chunk_manual(document) once more, on the same document
ChunkManualAgain ==
    /\ chunked # NotRun
    /\ rechunked = NotRun
    /\ rechunked' = chunk_manual(document)
    /\ UNCHANGED << parse_vars, document, chunked, prompt_vars, content_vars, rr_vars, store_vars, req_vars,
                    audit_response >>

-----------------------------------------------------------------------------
(* JSON extraction from a model's answer: _extract_json of                 *)
(* app/services/multimodal_audit.py and extract_json of                    *)
(* app/utils/json_repair.py.  A text is a sequence of tokens: the two      *)
(* braces, k for a member with a scalar value, n for a key whose value is  *)
(* the object that follows, t for prose without braces, F for a code     *)
(* fence and a blank for whitespace.                                       *)

Tokens == { "{", "}", "k", "n", "t", "F", " " }

Without(text, drop) == SelectSeq(text, LAMBDA x : x \notin drop)

\* str.strip() on a token text
RECURSIVE StripTokens(_)
StripTokens(text) ==
    IF text = << >> THEN text
    ELSE IF Head(text) = " " THEN StripTokens(Tail(text))
    ELSE IF text[Len(text)] = " " THEN StripTokens(SubSeq(text, 1, Len(text) - 1))
    ELSE text

\* whether the tokens, whitespace removed, are a JSON object: {} or an
\* object of one member
RECURSIVE IsObject(_)
IsObject(toks) ==
    /\ Len(toks) >= 2
    /\ toks[1] = "{"
    /\ toks[Len(toks)] = "}"
    /\ LET inner == SubSeq(toks, 2, Len(toks) - 1)
       IN  \/ inner = << >>
           \/ inner = << "k" >>
           \/ Len(inner) >= 1 /\ inner[1] = "n" /\ IsObject(Tail(inner))

Parsed(value) == [ok |-> TRUE, value |-> value, error |-> ""]
ParseFailed(error) == [ok |-> FALSE, value |-> << >>, error |-> error]
NotExtracted == [gemini |-> ParseFailed("not run"), manual |-> ParseFailed("not run")]

\* json.loads: the parsed object, held as its tokens without whitespace, or
\* JSONDecodeError
json_loads(text) ==
    IF IsObject(Without(text, { " " }))
    THEN Parsed(Without(text, { " " }))
    ELSE ParseFailed("JSONDecodeError")

\* re.search(r"\{.*\}", text, flags=re.DOTALL): the match, if any.  ".*" is
\* greedy: the match runs from the first "{" to the last "}" of the text
search_braces(text) ==
    LET opens == { i \in 1..Len(text) : text[i] = "{" }
        first == CHOOSE i \in opens : \A j \in opens : i <= j
        closes == { i \in 1..Len(text) : text[i] = "}" /\ i > first }
        last == CHOOSE i \in closes : \A j \in closes : j <= i
    IN  IF opens = {} \/ closes = {} THEN << >>
        ELSE << SubSeq(text, first, last) >>

\* the two extractors after their clean-up: a direct json.loads, then the
\* search and a json.loads of the match
ExtractFrom(cleaned) ==
    IF json_loads(cleaned).ok THEN json_loads(cleaned)
    ELSE IF search_braces(cleaned) = << >> THEN ParseFailed("ValueError")
    ELSE json_loads(search_braces(cleaned)[1])

\* multimodal_audit._extract_json: (text or "").strip()
gemini_extract_json(text) == ExtractFrom(StripTokens(text))

\* json_repair.extract_json: the fences removed, then .strip()
extract_json(text) == ExtractFrom(StripTokens(Without(text, { "F" })))

\* both extractors on the answer
ExtractJson ==
    /\ extracted = NotExtracted
    /\ extracted' = [gemini |-> gemini_extract_json(llm_text),
                     manual |-> extract_json(llm_text)]
    /\ UNCHANGED << llm_text, manual_json_vars, chunk_vars, prompt_vars,
                    content_vars, rr_vars, store_vars, req_vars, audit_response >>

-----------------------------------------------------------------------------
(* Manual JSON.  create_manual of app/routes/brands.py (and                *)
(* _parse_and_validate of app/services/brand_manual.py) pass the parsed    *)
(* answer of the manual model through normalize_manual_dict, validate it   *)
(* as a BrandManual and insert the dump as the manual_json of a new row.   *)
(* A JSON value is a record: kind says which of null, str, num, list and   *)
(* dict it is, s holds the text of a str (and str(v) of a num), items the  *)
(* elements of a list and fields the entries of a dict.                    *)

V(kind, s, items, fields) ==
    [kind |-> kind, s |-> s, items |-> items, fields |-> fields]

VNull == V("null", "", << >>, EmptyDict)
VStr(s) == V("str", s, << >>, EmptyDict)
VNum(s) == V("num", s, << >>, EmptyDict)
VList(items) == V("list", "", items, EmptyDict)
VDict(fields) == V("dict", "", << >>, fields)

\* bool(v), as "v or {}" tests it
truthy(v) ==
    CASE v.kind = "null" -> FALSE
      [] v.kind = "str" -> v.s # ""
      [] v.kind = "num" -> v.s # "0"
      [] v.kind = "list" -> v.items # << >>
      [] OTHER -> DOMAIN v.fields # {}

\* d.get(key): None when the dict does not hold the key
Field(d, key) == Get(d.fields, key, VNull)

\* d[key] = v
Put(d, key, v) == VDict((key :> v) @@ d.fields)

\* str(v) of a value that is neither None, a list nor a str: a number prints
\* as its digits, a dict as its repr
py_str(v) ==
    IF v.kind = "num" THEN v.s
    ELSE IF DOMAIN v.fields = {} THEN "{}" ELSE "{...}"

\* the characters the strip of _ensure_list removes: blank, dash and tab
\* (its fourth, the bullet U+2022, occurs in no input here)
BulletChars == { " ", "-", "\t" }

RECURSIVE lstrip_chars(_, _)
lstrip_chars(s, cs) ==
    IF Len(s) > 0 /\ SubSeq(s, 1, 1) \in cs
    THEN lstrip_chars(SubSeq(s, 2, Len(s)), cs) ELSE s

RECURSIVE rstrip_chars(_, _)
rstrip_chars(s, cs) ==
    IF Len(s) > 0 /\ SubSeq(s, Len(s), Len(s)) \in cs
    THEN rstrip_chars(SubSeq(s, 1, Len(s) - 1), cs) ELSE s

\* s.strip(cs)
strip_chars(s, cs) == rstrip_chars(lstrip_chars(s, cs), cs)

\* s.replace(c, "")
RECURSIVE remove_char(_, _)
remove_char(s, c) ==
    IF Len(s) = 0 THEN ""
    ELSE IF SubSeq(s, 1, 1) = c THEN remove_char(SubSeq(s, 2, Len(s)), c)
    ELSE SubSeq(s, 1, 1) \o remove_char(SubSeq(s, 2, Len(s)), c)

\* s.split(sep) for a one-character sep; cur is the part read so far
RECURSIVE split_from(_, _, _)
split_from(s, sep, cur) ==
    IF Len(s) = 0 THEN << cur >>
    ELSE IF SubSeq(s, 1, 1) = sep
    THEN << cur >> \o split_from(SubSeq(s, 2, Len(s)), sep, "")
    ELSE split_from(SubSeq(s, 2, Len(s)), sep, cur \o SubSeq(s, 1, 1))

split(s, sep) == split_from(s, sep, "")

\* manual_normalize._ensure_list
ensure_list(v) ==
    CASE v.kind = "null" -> VList(<< >>)
      [] v.kind = "list" -> v
      [] v.kind = "str" ->
            LET raw == split(remove_char(v.s, "\r"), "\n")
                stripped == [i \in 1..Len(raw) |-> strip_chars(raw[i], BulletChars)]
                parts == SelectSeq(stripped, LAMBDA p : p # "")
            IN  IF parts # << >>
                THEN VList([i \in 1..Len(parts) |-> VStr(parts[i])])
                ELSE VList(<< VStr(strip(v.s)) >>)
      [] OTHER -> VList(<< VStr(py_str(v)) >>)

\* manual_normalize._ensure_dict
ensure_dict(v) ==
    CASE v.kind = "null" -> VDict(EmptyDict)
      [] v.kind = "dict" -> v
      [] v.kind = "str" -> VDict("notes" :> v)
      [] OTHER -> VDict("value" :> v)

UpperLetters == "ABCDEFGHIJKLMNOPQRSTUVWXYZ"
LowerLetters == "abcdefghijklmnopqrstuvwxyz"

\* c.lower() of one character
lower_char(c) ==
    IF \E i \in 1..Len(UpperLetters) : SubSeq(UpperLetters, i, i) = c
    THEN LET i == CHOOSE j \in 1..Len(UpperLetters) : SubSeq(UpperLetters, j, j) = c
         IN  SubSeq(LowerLetters, i, i)
    ELSE c

\* s.lower()
RECURSIVE lower(_)
lower(s) ==
    IF Len(s) = 0 THEN ""
    ELSE lower_char(SubSeq(s, 1, 1)) \o lower(SubSeq(s, 2, Len(s)))

\* sub in s
str_contains(s, sub) ==
    \E i \in 1..(Len(s) - Len(sub) + 1) : SubSeq(s, i, i + Len(sub) - 1) = sub

Normalized(m) == [ok |-> TRUE, exc |-> "", value |-> m]
Rejected(exc) == [ok |-> FALSE, exc |-> exc, value |-> VNull]
NotValidated == [ok |-> FALSE, exc |-> "not run", value |-> VNull]
NoModelOutput == VNull

\* m.get(key) or {}
section_or_empty(m, key) ==
    IF truthy(Field(m, key)) THEN Field(m, key) ELSE VDict(EmptyDict)

\* d[k] = _ensure_list(d.get(k)) for every k of keys
PutLists(d, keys) == VDict([k \in keys |-> ensure_list(Field(d, k))] @@ d.fields)

MessagingLists ==
    { "value_props", "taglines", "forbidden_claims", "preferred_terms",
      "forbidden_terms" }
VisualLists == { "colors", "logo_rules", "typography", "image_style" }
ToneLists == { "dos", "donts" }
TopLists == { "approval_checklist", "assumptions" }

\* "simple" unless the lower-cased text holds "med"
reading_level_of(rl) ==
    IF rl.kind = "str"
    THEN IF str_contains(lower(rl.s), "med") THEN VStr("medium") ELSE VStr("simple")
    ELSE rl

\* manual_normalize.normalize_manual_dict: .get on a value that is not a dict
\* raises AttributeError
normalize_manual_dict(m) ==
    IF m.kind # "dict" THEN Rejected("AttributeError")
    ELSE
      LET sr == section_or_empty(m, "style_rules")
          vg == section_or_empty(m, "visual_guidelines")
          msg == section_or_empty(m, "messaging")
          tone == section_or_empty(m, "tone")
      IN  IF \E d \in { sr, vg, msg, tone } : d.kind # "dict"
          THEN Rejected("AttributeError")
          ELSE
            LET rl == reading_level_of(Get(sr.fields, "reading_level", VStr("simple")))
                sr2 == Put(Put(sr, "reading_level", rl), "length_guidelines",
                           ensure_dict(Field(sr, "length_guidelines")))
                sections ==
                    ("style_rules" :> sr2)
                        @@ ("visual_guidelines" :> PutLists(vg, VisualLists))
                        @@ ("messaging" :> PutLists(msg, MessagingLists))
                        @@ ("tone" :> PutLists(tone, ToneLists))
            IN  Normalized(PutLists(VDict(sections @@ m.fields), TopLists))

\* List[str]: a list whose elements are all str
list_of_str(v) ==
    /\ v.kind = "list"
    /\ \A i \in 1..Len(v.items) : v.items[i].kind = "str"

\* a field with a default: absent, or valid
absent_or(d, key, valid(_)) == key \notin DOMAIN d.fields \/ valid(d.fields[key])

\* a required str field
required_str(d, key) == key \in DOMAIN d.fields /\ d.fields[key].kind = "str"

\* Optional[str] = None
optional_str(v) == v.kind \in { "null", "str" }

\* every key of keys is absent or a List[str]
lists_valid(d, keys) == \A k \in keys : absent_or(d, k, list_of_str)

\* the dump of List[str] fields, [] for an absent one
lists_dump(d, keys) == [k \in keys |-> Get(d.fields, k, VList(<< >>))]

\* a Literal that lets every value through
reading_level_unchecked(v) == TRUE

\* Literal["simple", "medium"]
reading_level_allowed(v) == v \in { VStr("simple"), VStr("medium") }

is_dict(v) == v.kind = "dict"

ToneModel_valid(v) ==
    /\ is_dict(v)
    /\ required_str(v, "description")
    /\ lists_valid(v, ToneLists)

ToneModel_dump(v) ==
    VDict(("description" :> v.fields["description"]) @@ lists_dump(v, ToneLists))

MessagingModel_valid(v) == is_dict(v) /\ lists_valid(v, MessagingLists)

MessagingModel_dump(v) == VDict(lists_dump(v, MessagingLists))

StyleRulesModel_valid(v) ==
    /\ is_dict(v)
    /\ absent_or(v, "reading_level", reading_level_allowed)
    /\ absent_or(v, "length_guidelines", is_dict)

StyleRulesModel_dump(v) ==
    VDict(("reading_level" :> Get(v.fields, "reading_level", VStr("simple")))
            @@ ("length_guidelines" :> Get(v.fields, "length_guidelines",
                                           VDict(EmptyDict))))

VisualGuidelinesModel_valid(v) ==
    /\ is_dict(v)
    /\ lists_valid(v, VisualLists)
    /\ absent_or(v, "notes", optional_str)

VisualGuidelinesModel_dump(v) ==
    VDict(("notes" :> Field(v, "notes")) @@ lists_dump(v, VisualLists))

ExampleItem_valid(v) ==
    /\ is_dict(v)
    /\ required_str(v, "type")
    /\ required_str(v, "text")
    /\ absent_or(v, "why", optional_str)

ExampleItem_dump(v) ==
    VDict(("type" :> v.fields["type"]) @@ ("text" :> v.fields["text"])
            @@ ("why" :> Field(v, "why")))

\* List[ExampleItem]
list_of_examples(v) ==
    /\ v.kind = "list"
    /\ \A i \in 1..Len(v.items) : ExampleItem_valid(v.items[i])

ExampleLists == { "good", "bad" }

ExamplesModel_valid(v) ==
    /\ is_dict(v)
    /\ \A k \in ExampleLists : absent_or(v, k, list_of_examples)

ExamplesModel_dump(v) ==
    VDict([k \in ExampleLists |->
             LET l == Get(v.fields, k, VList(<< >>))
             IN  VList([i \in 1..Len(l.items) |-> ExampleItem_dump(l.items[i])])])

\* the section a default_factory makes when the key is absent
section_or_default(m, key) == Get(m.fields, key, VDict(EmptyDict))

\* BrandManual.model_validate(m).model_dump(): the dump, or ValidationError
BrandManual_validate(m) ==
    IF /\ is_dict(m)
       /\ \A k \in { "brand_name", "product", "audience" } : required_str(m, k)
       /\ "tone" \in DOMAIN m.fields /\ ToneModel_valid(m.fields["tone"])
       /\ "messaging" \in DOMAIN m.fields
       /\ MessagingModel_valid(m.fields["messaging"])
       /\ absent_or(m, "style_rules", StyleRulesModel_valid)
       /\ absent_or(m, "visual_guidelines", VisualGuidelinesModel_valid)
       /\ absent_or(m, "examples", ExamplesModel_valid)
       /\ lists_valid(m, TopLists)
    THEN Normalized(VDict(
            [k \in { "brand_name", "product", "audience" } |-> m.fields[k]]
              @@ ("tone" :> ToneModel_dump(m.fields["tone"]))
              @@ ("messaging" :> MessagingModel_dump(m.fields["messaging"]))
              @@ ("style_rules" :>
                    StyleRulesModel_dump(section_or_default(m, "style_rules")))
              @@ ("visual_guidelines" :>
                    VisualGuidelinesModel_dump(
                        section_or_default(m, "visual_guidelines")))
              @@ ("examples" :>
                    ExamplesModel_dump(section_or_default(m, "examples")))
              @@ lists_dump(m, TopLists)))
    ELSE Rejected("ValidationError")

\* brand_manual._parse_and_validate after extract_json: normalise, then
\* validate and dump
parse_and_validate(parsed) ==
    IF normalize_manual_dict(parsed).ok
    THEN BrandManual_validate(normalize_manual_dict(parsed).value)
    ELSE normalize_manual_dict(parsed)

PersistAnswer(kind, http, error) == [kind |-> kind, http |-> http, error |-> error]
NoPersistResponse == PersistAnswer("none", 0, "")

PersistFaults == { "none", "insert" }

\* create_manual from the parsed answer to the insert of the manual row:
\* every exception of normalisation and validation is answered 422, an
\* insert that returns no row 500
create_manual_persist(brand_id, fault) ==
    /\ persist_response = NoPersistResponse
    /\ validated' = parse_and_validate(model_output)
    /\ IF ~parse_and_validate(model_output).ok
       THEN /\ persist_response' = PersistAnswer("error", 422, "invalid_json")
            /\ UNCHANGED manual_rows
       ELSE IF fault = "insert"
       THEN /\ persist_response' = PersistAnswer("error", 500, "db_insert_failed")
            /\ UNCHANGED manual_rows
       ELSE /\ manual_rows' =
                  Append(manual_rows,
                         [brand_id |-> brand_id,
                          manual_json |-> parse_and_validate(model_output).value])
            /\ persist_response' = PersistAnswer("inserted", 0, "")
    /\ UNCHANGED << llm_text, extracted, model_output, chunk_vars, prompt_vars,
                    content_vars, rr_vars, store_vars, req_vars, audit_response >>

\* the answer of a model that followed the prompt
WellFormedOutput ==
    VDict(("brand_name" :> VStr("Volt")) @@ ("product" :> VStr("Bebida"))
        @@ ("audience" :> VStr("Adultos"))
        @@ ("tone" :> VDict(("description" :> VStr("Cercano"))
                              @@ ("dos" :> VList(<< VStr("Habla claro") >>))
                              @@ ("donts" :> VList(<< >>))))
        @@ ("messaging" :> VDict([k \in MessagingLists |-> VList(<< >>)]))
        @@ ("style_rules" :> VDict(("reading_level" :> VStr("simple"))
                                     @@ ("length_guidelines" :> VDict(EmptyDict))))
        @@ ("visual_guidelines" :>
              VDict(("notes" :> VNull) @@ [k \in VisualLists |-> VList(<< >>)]))
        @@ ("examples" :> VDict([k \in ExampleLists |-> VList(<< >>)]))
        @@ ("approval_checklist" :> VList(<< VStr("Sin claims medicos") >>))
        @@ ("assumptions" :> VList(<< >>)))

\* the marker of a key the answer leaves out
VAbsent == V("absent", "", << >>, EmptyDict)

\* the dict d with key set to v, or without key when v is VAbsent
WithKey2(d, key, v) ==
    IF v = VAbsent
    THEN VDict([k \in DOMAIN d.fields \ { key } |-> d.fields[k]])
    ELSE Put(d, key, v)

\* the answer m with the entry at <<section, key>> replaced (section "" is
\* the top level); a section that is not a dict is left as it is
WithEntry(m, path, v) ==
    IF path[1] = "" THEN WithKey2(m, path[2], v)
    ELSE IF path[1] \in DOMAIN m.fields /\ is_dict(m.fields[path[1]])
    THEN Put(m, path[1], WithKey2(m.fields[path[1]], path[2], v))
    ELSE m

\* where the list-typed fields of a manual are
ListPaths ==
    { << "tone", k >> : k \in ToneLists }
        \cup { << "messaging", k >> : k \in MessagingLists }
        \cup { << "visual_guidelines", k >> : k \in VisualLists }
        \cup { << "examples", k >> : k \in ExampleLists }
        \cup { << "", k >> : k \in TopLists }

\* what a model may put where a list belongs
RawLists ==
    { VAbsent, VNull, VStr(""), VStr("- a\n- b"), VStr("uno"), VNum("5"),
      VList(<< >>), VList(<< VStr("a") >>), VList(<< VNum("5") >>),
      VDict(EmptyDict) }

\* what a model may put as the reading level
RawLevels ==
    { VAbsent, VNull, VStr("simple"), VStr("Medium"), VStr("advanced"),
      VNum("5") }

\* what a model may put where a section belongs
RawSections == { VAbsent, VNull, VStr(""), VStr("n/a"), VList(<< >>) }

SectionNames ==
    { "tone", "messaging", "style_rules", "visual_guidelines", "examples" }

\* the parsed answers: the well-formed one with one list entry, the reading
\* level and at most one section replaced; or an answer that is no object
ModelOutputs ==
    { WithEntry(WithEntry(WithEntry(WellFormedOutput, << "", sec[1] >>, sec[2]),
                          << "style_rules", "reading_level" >>, rl), p, v) :
        sec \in ({ << "examples", WellFormedOutput.fields["examples"] >> }
                    \cup (SectionNames \X RawSections)),
        rl \in RawLevels, p \in ListPaths, v \in RawLists }
      \cup { VList(<< >>) }

-----------------------------------------------------------------------------
(* Prompt assembler: build_generation_prompt of app/services/content.py    *)
(* and its copy in app/routes/content.py.                                  *)

NoPromptArgs == [content_type |-> "", brief |-> "", rag_chunks |-> << >>]

\* [f"[{c['section']}] {c['chunk_text']}" for c in rag_chunks]
ContextBlocks(rag_chunks) ==
    [i \in 1..Len(rag_chunks) |->
        "[" \o rag_chunks[i].section \o "] " \o rag_chunks[i].chunk_text]

\* the blocks joined by a single newline
context_one_newline(rag_chunks) == Join("\n", ContextBlocks(rag_chunks))

\* context = "\n\n".join(...)
context(rag_chunks) == Join("\n\n", ContextBlocks(rag_chunks))

system_message ==
    "Eres un copywriter. Debes obedecer estrictamente el Brand Manual proporcionado. "
    \o "No uses términos ni claims prohibidos. No inventes hechos no presentes."

user_message(ctype, brief, rag_chunks) ==
    IF ctype = "product_description"
    THEN "Brand Manual (RAG):\n" \o context(rag_chunks)
         \o "\n\nTarea: Escribe una descripción de producto basada en el brief."
         \o "\nBrief: " \o brief
         \o "\n\nRequisitos:"
         \o "\n- 80-150 palabras (o sigue length_guidelines si se indica)."
         \o "\n- Tono según manual."
         \o "\n- Evita tecnicismos si el manual lo prohíbe."
         \o "\n- No usar forbidden_terms ni forbidden_claims."
         \o "\nDevuelve solo el texto final."
    ELSE IF ctype = "video_script"
    THEN "Brand Manual (RAG):\n" \o context(rag_chunks)
         \o "\n\nTarea: Escribe un guion de video corto (15s) basado en el brief."
         \o "\nBrief: " \o brief
         \o "\n\nFormato:"
         \o "\n- Hook (0-3s)"
         \o "\n- Cuerpo (3-12s)"
         \o "\n- Cierre + CTA (12-15s)"
         \o "\nEvita forbidden_terms/claims. Devuelve solo el guion."
    ELSE "Brand Manual (RAG):\n" \o context(rag_chunks)
         \o "\n\nTarea: Genera un prompt de imagen basado en el brief."
         \o "\nBrief: " \o brief
         \o "\n\nFormato de salida:"
         \o "\n- Prompt principal (1 párrafo)"
         \o "\n- Negative prompt (lista corta)"
         \o "\n- Notas de cumplimiento (1-3 bullets)"
         \o "\nEvita elementos/claims prohibidos. Devuelve solo eso."

build_generation_prompt(ctype, brief, rag_chunks) ==
    << [role |-> "system", content |-> system_message],
       [role |-> "user", content |-> user_message(ctype, brief, rag_chunks)] >>

\* the ranked chunks a prompt is built from
PromptChunks ==
    { [section |-> "messaging.forbidden_terms", chunk_text |-> "X"],
      [section |-> "tone.dos", chunk_text |-> "Habla claro\nSe breve"],
      [section |-> "visual.logo_rules", chunk_text |-> "Logo visible"] }

Briefs == { "Lata 250ml sabor limon", "Promo [verano]" }

\* one call build_generation_prompt(content_type, brief, rag_chunks)
BuildPrompt ==
    /\ prompt_msgs = << >>
    /\ prompt_msgs' = build_generation_prompt(prompt_args.content_type,
                            prompt_args.brief, prompt_args.rag_chunks)
    /\ UNCHANGED << parse_vars, prompt_args, chunk_vars, content_vars, rr_vars, store_vars,
                    req_vars, audit_response >>

-----------------------------------------------------------------------------
(* Reranker *)

BASE_SECTION_WEIGHTS == <<
    <<"messaging.forbidden_claims", 100>>,
    <<"messaging.forbidden_terms", 100>>,
    <<"tone.donts", 90>>,
    <<"tone.dos", 85>>,
    <<"style_rules", 80>>,
    <<"approval_checklist", 75>>,
    <<"messaging.preferred_terms", 70>>,
    <<"messaging.value_props", 65>>,
    <<"messaging.taglines", 60>>,
    <<"visual.logo_rules", 40>>,
    <<"visual.typography", 35>>,
    <<"visual.colors", 35>>,
    <<"visual.image_style", 30>>,
    <<"visual.notes", 20>>,
    <<"examples.bad", 15>>,
    <<"examples.good", 10>> >>

RECURSIVE WeightScan(_, _)
WeightScan(section, i) ==
    IF i > Len(BASE_SECTION_WEIGHTS) THEN 0
    ELSE IF section = BASE_SECTION_WEIGHTS[i][1]
            \/ startswith(section, BASE_SECTION_WEIGHTS[i][1])
         THEN BASE_SECTION_WEIGHTS[i][2]
         ELSE WeightScan(section, i + 1)

\* a lookup by equality alone: a label that only starts with a table entry
\* gets no weight
weight_for_section_exact(section) ==
    LET hits == { i \in 1..Len(BASE_SECTION_WEIGHTS) :
                    BASE_SECTION_WEIGHTS[i][1] = strip(section) }
    IN  IF hits = {} THEN 0
        ELSE BASE_SECTION_WEIGHTS[CHOOSE i \in hits : TRUE][2]

\* first matching prefix of the table, scanned in table order; 0 when none
weight_for_section(section) == WeightScan(strip(section), 1)

\* c.get("similarity") or 0.0, times 100
SimOrZero(c) == IF c.similarity = <<>> THEN 0 ELSE c.similarity[1]

\* the content-type increment: the code adds it to the weight w (w += 25),
\* so it is multiplied by 1000 together with the table weight
TypeBonus(section, ctype) ==
    IF ctype = "image_prompt"
    THEN (IF startswith(section, "visual.") THEN 25 ELSE 0)
    ELSE IF ctype = "video_script"
    THEN (IF startswith(section, "tone.") THEN 10 ELSE 0)
    ELSE IF ctype = "product_description"
    THEN (IF startswith(section, "messaging.value_props") THEN 10 ELSE 0)
         + (IF startswith(section, "messaging.preferred_terms") THEN 10 ELSE 0)
    ELSE 0

\* rerank_chunks.score: (w * 1000.0) + (sim * 100.0), w holding the bonus
score(c, ctype) ==
    (weight_for_section(c.section) + TypeBonus(c.section, ctype)) * 1000
        + SimOrZero(c)

\* an insertion that puts x before the elements of equal key: with it the
\* sort reverses the input order of ties
RECURSIVE InsertDescBeforeTies(_, _, _)
InsertDescBeforeTies(x, sorted, ctype) ==
    IF sorted = <<>> THEN <<x>>
    ELSE IF score(Head(sorted), ctype) > score(x, ctype)
         THEN <<Head(sorted)>> \o InsertDescBeforeTies(x, Tail(sorted), ctype)
         ELSE <<x>> \o sorted

\* sorted(chunks, key=score, reverse=True): a stable sort, equal keys keep
\* their input order.  Insert x behind every element whose key is >= x's.
RECURSIVE InsertDesc(_, _, _)
InsertDesc(x, sorted, ctype) ==
    IF sorted = <<>> THEN <<x>>
    ELSE IF score(Head(sorted), ctype) >= score(x, ctype)
         THEN <<Head(sorted)>> \o InsertDesc(x, Tail(sorted), ctype)
         ELSE <<x>> \o sorted

RECURSIVE SortedDesc(_, _, _)
SortedDesc(cs, acc, ctype) ==
    IF cs = <<>> THEN acc
    ELSE SortedDesc(Tail(cs), InsertDesc(Head(cs), acc, ctype), ctype)

rerank_chunks(cs, ctype, k) == SlicePrefix(SortedDesc(cs, <<>>, ctype), k)

\* Candidate chunks the model ranks: one section per band of the table, an
\* unlabelled chunk, two similarities, one chunk without a similarity and one
\* forbidden_claims chunk, whose score ties with a forbidden_terms chunk.
Sections == { "messaging.forbidden_terms", "tone.donts", "messaging.taglines",
              "visual.logo_rules", "examples.good", "" }

Similarities == { <<10>>, <<99>> }

CandidatePool ==
    [section : Sections, similarity : Similarities]
        \cup { [section |-> "visual.logo_rules", similarity |-> <<>>],
               [section |-> "messaging.forbidden_claims", similarity |-> <<10>>] }

ContentTypes == { "product_description", "video_script", "image_prompt" }

SeqsUpTo(S, n) == UNION { [1..m -> S] : m \in 0..n }

\* one call rerank_chunks(chunks, content_type, keep_k)
Rerank(ctype, k) ==
    /\ rr_pc = "input"
    /\ content_type' = ctype
    /\ keep_k' = k
    /\ reranked' = rerank_chunks(chunks, ctype, k)
    /\ rr_pc' = "done"
    /\ UNCHANGED << ext_vars, chunks, store_vars, req_vars, audit_response >>

-----------------------------------------------------------------------------
(* JSON values of the vision model's parsed output.  Every value is a      *)
(* record of one shape: kind says which field carries it.  A list is held  *)
(* by its length (its items are opaque violations or rules).               *)

JAbsent == [kind |-> "absent", s |-> "", n |-> 0]     \* key not in the dict
JNull == [kind |-> "null", s |-> "", n |-> 0]         \* JSON null, Python None
JStr(str) == [kind |-> "str", s |-> str, n |-> 0]
JInt(i) == [kind |-> "int", s |-> "", n |-> i]
JList(len) == [kind |-> "list", s |-> "", n |-> len]

\* d.get(key): a missing key reads as None
DictGet(j) == IF j.kind = "absent" THEN JNull ELSE j

\* d.get(key, default)
DictGetDefault(j, default) == IF j.kind = "absent" THEN default ELSE j

\* Python truthiness
Truthy(j) ==
    \/ j.kind = "str" /\ j.s # ""
    \/ j.kind = "int" /\ j.n # 0
    \/ j.kind = "list" /\ j.n > 0

\* x or y
PyOr(x, y) == IF Truthy(x) THEN x ELSE y

\* len(x) is defined on lists and strings; on a number it raises TypeError
HasLen(j) == j.kind \in {"list", "str"}
PyLen(j) == IF j.kind = "list" THEN j.n ELSE Len(j.s)

Digits == << "0", "1", "2", "3", "4", "5", "6", "7", "8", "9" >>

IsDigit(ch) == \E d \in 1..Len(Digits) : Digits[d] = ch
DigitValue(ch) == (CHOOSE d \in 1..Len(Digits) : Digits[d] = ch) - 1

\* int(str) accepts surrounding blanks and decimal digits (no sign modelled)
IsIntLiteral(str) ==
    LET t == strip(str)
    IN  Len(t) > 0 /\ \A i \in 1..Len(t) : IsDigit(SubSeq(t, i, i))

RECURSIVE ParseDigits(_, _)
ParseDigits(t, acc) ==
    IF Len(t) = 0 THEN acc
    ELSE ParseDigits(SubSeq(t, 2, Len(t)), acc * 10 + DigitValue(SubSeq(t, 1, 1)))

\* int(x) succeeds on an int and on a string holding an integer literal
IntConvertible(j) == j.kind = "int" \/ (j.kind = "str" /\ IsIntLiteral(j.s))
PyInt(j) == IF j.kind = "int" THEN j.n ELSE ParseDigits(strip(j.s), 0)

\* try: int(audit.get("validated_rules_count") or 0)  except Exception: 0
validated_count(audit) ==
    LET x == PyOr(DictGet(audit.validated_rules_count), JInt(0))
    IN  IF IntConvertible(x) THEN PyInt(x) ELSE 0

\* audit.get("violations") or []
violations_of(audit) == PyOr(DictGet(audit.violations), JList(0))

\* a slip in the threshold: two validated rules are not yet enough
deterministic_verdict_threshold(audit) ==
    IF PyLen(violations_of(audit)) > 0 THEN "FAIL"
    ELSE IF validated_count(audit) <= 2 THEN "FAIL"
    ELSE "CHECK"

\* the deterministic verdict of the brand audits and of the audit service
deterministic_verdict(audit) ==
    IF PyLen(violations_of(audit)) > 0 THEN "FAIL"
    ELSE IF validated_count(audit) < 2 THEN "FAIL"
    ELSE "CHECK"

-----------------------------------------------------------------------------
(* Record store, callers, responses *)

ContentIds == { "c1", "c2" }        \* ids of the content items that exist
UnknownContentId == "c9"            \* an id no content item has
BrandIds == { "b1", "b2" }          \* b1 has a manual, b2 has none

Profiles == { [id |-> "u1", role |-> "creator"],
              [id |-> "u2", role |-> "approver_a"],
              [id |-> "u3", role |-> "approver_b"],
              [id |-> "u4", role |-> "creator"] }

Slots == { "r1", "r2" }             \* concurrent request slots

Idle == [pc |-> "idle", decision |-> "", content_id |-> "", comment |-> <<>>,
         profile |-> [id |-> "", role |-> ""], call |-> 0]

NoResponse == [kind |-> "none", http |-> 0, exc |-> "", decision |-> "",
               content_id |-> "", verdict |-> JNull, call |-> 0]

\* the handler's answer: kind "ok" (200), "forbidden" (403), "not_found" (404),
\* "conflict" (409), or "error" (500, an exception nobody caught: exc names
\* the collaborator that raised it); call is the ordinal of the request
Response(kind, http, exc, decision, content_id, call) ==
    [kind |-> kind, http |-> http, exc |-> exc, decision |-> decision,
     content_id |-> content_id, verdict |-> JNull, call |-> call]

\* the embedded chunks of manual m1, in the order the chunker emitted them
ManualOneChunks ==
    << [section |-> "tone.donts", chunk_text |-> "Sin jerga"],
       [section |-> "messaging.taglines", chunk_text |-> "Recarga tu dia"],
       [section |-> "messaging.forbidden_terms", chunk_text |-> "X"],
       [section |-> "visual.logo_rules", chunk_text |-> "Logo visible"] >>

InitialManualChunks == [m \in { "m1" } |-> ManualOneChunks]

\* the embedding gateway and the similarity search are black boxes: the
\* similarity (times 100) they give a chunk of a section for the query text
similarity_of(query, section) ==
    IF query = "Lata 250ml sabor limon"
    THEN CASE section = "tone.donts" -> 99
           [] section = "messaging.taglines" -> 60
           [] section = "visual.logo_rules" -> 40
           [] section = "messaging.forbidden_terms" -> 10
           [] OTHER -> 50
    ELSE CASE section = "messaging.taglines" -> 90
           [] section = "messaging.forbidden_terms" -> 80
           [] section = "tone.donts" -> 30
           [] section = "visual.logo_rules" -> 20
           [] OTHER -> 50

\* order by similarity, highest first
RECURSIVE InsertBySimilarity(_, _)
InsertBySimilarity(sorted, x) ==
    IF sorted = << >> THEN << x >>
    ELSE IF Head(sorted).similarity[1] >= x.similarity[1]
         THEN << Head(sorted) >> \o InsertBySimilarity(Tail(sorted), x)
         ELSE << x >> \o sorted

RECURSIVE BySimilarity(_, _)
BySimilarity(rows, acc) ==
    IF rows = << >> THEN acc
    ELSE BySimilarity(Tail(rows), InsertBySimilarity(acc, Head(rows)))

\* the rpc match_brand_manual_chunks_openai: the match_count chunks of the
\* one manual that are most similar to the query, none for a manual without
\* chunks
match_manual_chunks(table, manual_id, query, match_count) ==
    LET rows == IF manual_id \in DOMAIN table THEN table[manual_id] ELSE << >>
        scored == [i \in 1..Len(rows) |->
                     [section |-> rows[i].section,
                      chunk_text |-> rows[i].chunk_text,
                      similarity |-> << similarity_of(query, rows[i].section) >>]]
    IN  SlicePrefix(BySimilarity(scored, << >>), match_count)

\* the id the record store gives the n-th content item, the n-th manual
ItemId(n) == "c" \o ToString(n)
ManualId(n) == "m" \o ToString(n)

\* the row generate inserts; created_at is the store's insertion clock and
\* created_by, which no insert sets, stays null
ContentRow(brand_id, manual_id, ctype, brief, output_text, rag_chunks, created_at) ==
    [status |-> "PENDING", brand_id |-> brand_id, brand_manual_id |-> manual_id,
     type |-> ctype, input_brief |-> brief, output_text |-> output_text,
     rag_chunks |-> rag_chunks, created_at |-> created_at, created_by |-> << >>]

\* the items a store of n items starts with: all generated by the served
\* route for brand b1 from its manual m1
StoredItems(n) ==
    [c \in { ItemId(i) : i \in 1..n } |->
        LET i == CHOOSE j \in 1..n : ItemId(j) = c
        IN  ContentRow("b1", "m1", "product_description", "Lata 250ml sabor limon",
                       "texto",
                       match_manual_chunks(InitialManualChunks, "m1",
                                           "Lata 250ml sabor limon", 6), i)]

\* the record store the behaviours start from: two PENDING content items of
\* brand b1, made from its manual m1; no decision and no audit yet
InitialContentItems == StoredItems(2)

\* who asked for the stored items: creators u1 and u4 in turn
RequestersOf(items) ==
    [c \in DOMAIN items |-> IF items[c].created_at % 2 = 1 THEN "u1" ELSE "u4"]

InitialRequestedBy == RequestersOf(InitialContentItems)

NoGeneration ==
    [flow |-> "", caller |-> "", brand_id |-> "", content_type |-> "",
     brief |-> "", steps |-> << >>, retrieved |-> << >>, prompt |-> << >>,
     kind |-> "none", http |-> 0, exc |-> "", content_id |-> "",
     manual_id |-> "", call |-> 0]

NoInboxResponse ==
    [caller |-> [id |-> "", role |-> ""], kind |-> "none", items |-> << >>]

NoManualRequest ==
    [pc |-> "idle", brand_id |-> "", manual_id |-> "", manual |-> EmptyDict,
     kind |-> "none", http |-> 0]

InitialBrandManuals == [b \in BrandIds |-> IF b = "b1" THEN <<"m1">> ELSE <<>>]

\* a guard that lets every role through
require_roles_open(profile, roles) == TRUE

\* require_roles(*roles): 403 unless the caller's role is one of roles
require_roles(profile, roles) == profile.role \in roles

-----------------------------------------------------------------------------
(* Image audits.  The vision model is a black box: its parsed answer is    *)
(* any dict of VisionOutputs, whatever rules text it was given.            *)

VisionVerdicts == { JAbsent, JStr("CHECK"), JStr("FAIL"), JStr("REVIEW") }
VisionViolations == { JAbsent, JList(0), JList(1), JInt(1) }
VisionCounts == { JAbsent, JInt(0), JInt(1), JInt(2), JStr("2"), JStr("two") }

VisionOutputs ==
    [verdict : VisionVerdicts, validated_rules_count : VisionCounts,
     violations : VisionViolations]

\* which collaborator raises during the handler, if any: "tracing" is a
\* trace/update call before the insert, "tracing_end" the trace.update after
\* it, "vision" a provider failure or an answer holding no JSON object
AuditFaults == { "none", "tracing", "record_store", "object_store", "embedding",
                 "vision", "tracing_end" }

AuditResponse(kind, http, exc, subject, verdict) ==
    [kind |-> kind, http |-> http, exc |-> exc, decision |-> "",
     content_id |-> subject, verdict |-> verdict, call |-> n_started + 1]

\* the row of a report: the persisted verdict, report_json's entries and,
\* as raw, the model answer the report was made from
AuditRow(flow, subject, manual_id, verdict, count, violations, profile, audit) ==
    [flow |-> flow, subject |-> subject, brand_manual_id |-> manual_id,
     verdict |-> verdict, validated_rules_count |-> count,
     violations |-> violations, created_by |-> profile.id, raw |-> audit]

\* the verdict and report of the flows that apply the deterministic policy
PolicyRow(flow, subject, manual_id, profile, audit) ==
    AuditRow(flow, subject, manual_id, JStr(deterministic_verdict(audit)),
             JInt(validated_count(audit)), violations_of(audit), profile, audit)

\* the verdict of the route /content/{id}/audit-image:
\* audit.get("verdict", "FAIL"), the model's own verdict
route_verdict(audit) == DictGetDefault(audit.verdict, JStr("FAIL"))

\* the report of the route /content/{id}/audit-image
RouteRow(subject, manual_id, profile, audit) ==
    AuditRow("route.audit_image", subject, manual_id,
             route_verdict(audit), JAbsent,
             DictGetDefault(audit.violations, JList(0)), profile, audit)

latest_manual(brand_id) ==
    brand_manuals[brand_id][Len(brand_manuals[brand_id])]

\* services/governance.py audit_image
service_audit_image(content_id, profile, audit, fault) ==
    /\ n_started < MaxAudits
    /\ n_started' = n_started + 1
    /\ IF fault = "tracing"
       THEN /\ audit_response' = AuditResponse("error", 500, fault, content_id, JNull)
            /\ UNCHANGED audit_images
       ELSE IF content_id \notin DOMAIN content_items
       THEN /\ audit_response' = AuditResponse("not_found", 404, "", content_id, JNull)
            /\ UNCHANGED audit_images
       ELSE IF fault \in {"record_store", "object_store", "embedding", "vision"}
       THEN /\ audit_response' = AuditResponse("error", 500, fault, content_id, JNull)
            /\ UNCHANGED audit_images
       ELSE IF ~HasLen(violations_of(audit))
       THEN /\ audit_response' =
                  AuditResponse("error", 500, "TypeError", content_id, JNull)
            /\ UNCHANGED audit_images
       ELSE LET row == PolicyRow("service.audit_image", content_id,
                                 content_items[content_id].brand_manual_id,
                                 profile, audit)
            IN  /\ audit_images' = Append(audit_images, row)
                /\ audit_response' =
                      IF fault = "tracing_end"
                      THEN AuditResponse("error", 500, fault, content_id, JNull)
                      ELSE AuditResponse("ok", 200, "", content_id, row.verdict)
    /\ UNCHANGED << ext_vars, rr_vars, content_items, brand_manuals, approvals,
                    brand_audit_images, req, n_updates, response >>

\* routes/governance.py audit_image, the handler of POST /content/{id}/audit-image
route_audit_image(content_id, profile, audit, fault) ==
    /\ n_started < MaxAudits
    /\ n_started' = n_started + 1
    /\ IF ~require_roles(profile, {"approver_b"})
       THEN /\ audit_response' = AuditResponse("forbidden", 403, "", content_id, JNull)
            /\ UNCHANGED audit_images
       ELSE IF fault = "tracing"
       THEN /\ audit_response' = AuditResponse("error", 500, fault, content_id, JNull)
            /\ UNCHANGED audit_images
       ELSE IF content_id \notin DOMAIN content_items
       THEN /\ audit_response' = AuditResponse("not_found", 404, "", content_id, JNull)
            /\ UNCHANGED audit_images
       ELSE IF fault \in {"record_store", "object_store", "embedding", "vision"}
       THEN /\ audit_response' = AuditResponse("error", 500, fault, content_id, JNull)
            /\ UNCHANGED audit_images
       ELSE LET row == RouteRow(content_id,
                                content_items[content_id].brand_manual_id,
                                profile, audit)
            IN  /\ audit_images' = Append(audit_images, row)
                /\ audit_response' =
                      IF fault = "tracing_end"
                      THEN AuditResponse("error", 500, fault, content_id, JNull)
                      ELSE AuditResponse("ok", 200, "", content_id, row.verdict)
    /\ UNCHANGED << ext_vars, rr_vars, content_items, brand_manuals, approvals,
                    brand_audit_images, req, n_updates, response >>

\* services/brand_audit.py audit_brand_image
service_audit_brand_image(brand_id, profile, audit, fault) ==
    /\ n_started < MaxAudits
    /\ n_started' = n_started + 1
    /\ IF fault = "tracing"
       THEN /\ audit_response' = AuditResponse("error", 500, fault, brand_id, JNull)
            /\ UNCHANGED brand_audit_images
       ELSE IF brand_manuals[brand_id] = <<>>
       THEN /\ audit_response' = AuditResponse("conflict", 409, "", brand_id, JNull)
            /\ UNCHANGED brand_audit_images
       ELSE IF fault \in {"record_store", "object_store", "embedding", "vision"}
       THEN /\ audit_response' = AuditResponse("error", 500, fault, brand_id, JNull)
            /\ UNCHANGED brand_audit_images
       ELSE IF ~HasLen(violations_of(audit))
       THEN /\ audit_response' =
                  AuditResponse("error", 500, "TypeError", brand_id, JNull)
            /\ UNCHANGED brand_audit_images
       ELSE LET row == PolicyRow("service.audit_brand_image", brand_id,
                                 latest_manual(brand_id), profile, audit)
            IN  /\ brand_audit_images' = Append(brand_audit_images, row)
                /\ audit_response' =
                      IF fault = "tracing_end"
                      THEN AuditResponse("error", 500, fault, brand_id, JNull)
                      ELSE AuditResponse("ok", 200, "", brand_id, row.verdict)
    /\ UNCHANGED << ext_vars, rr_vars, content_items, brand_manuals, approvals,
                    audit_images, req, n_updates, response >>

\* routes/brand_audit.py audit_brand_image, the handler of
\* POST /brands/{brand_id}/audit-image
route_audit_brand_image(brand_id, profile, audit, fault) ==
    /\ n_started < MaxAudits
    /\ n_started' = n_started + 1
    /\ IF ~require_roles(profile, {"approver_b"})
       THEN /\ audit_response' = AuditResponse("forbidden", 403, "", brand_id, JNull)
            /\ UNCHANGED brand_audit_images
       ELSE IF fault = "tracing"
       THEN /\ audit_response' = AuditResponse("error", 500, fault, brand_id, JNull)
            /\ UNCHANGED brand_audit_images
       ELSE IF brand_manuals[brand_id] = <<>>
       THEN /\ audit_response' = AuditResponse("conflict", 409, "", brand_id, JNull)
            /\ UNCHANGED brand_audit_images
       ELSE IF fault \in {"record_store", "object_store", "embedding", "vision"}
       THEN /\ audit_response' = AuditResponse("error", 500, fault, brand_id, JNull)
            /\ UNCHANGED brand_audit_images
       ELSE IF ~HasLen(violations_of(audit))
       THEN /\ audit_response' =
                  AuditResponse("error", 500, "TypeError", brand_id, JNull)
            /\ UNCHANGED brand_audit_images
       ELSE LET row == PolicyRow("route.audit_brand_image", brand_id,
                                 latest_manual(brand_id), profile, audit)
            IN  /\ brand_audit_images' = Append(brand_audit_images, row)
                /\ audit_response' =
                      IF fault = "tracing_end"
                      THEN AuditResponse("error", 500, fault, brand_id, JNull)
                      ELSE AuditResponse("ok", 200, "", brand_id, row.verdict)
    /\ UNCHANGED << ext_vars, rr_vars, content_items, brand_manuals, approvals,
                    audit_images, req, n_updates, response >>

\* the callers of the audit services: the service functions check no role,
\* the model calls them with the profiles the routes let through
Auditors == { p \in Profiles : p.role = "approver_b" }

InitAudit ==
    /\ chunks = <<>>
    /\ content_type = ""
    /\ keep_k = 0
    /\ reranked = <<>>
    /\ rr_pc = "input"
    /\ content_items = InitialContentItems
    /\ brand_manuals = InitialBrandManuals
    /\ approvals = <<>>
    /\ audit_images = <<>>
    /\ brand_audit_images = <<>>
    /\ req = [s \in Slots |-> Idle]
    /\ n_started = 0
    /\ n_updates = [c \in ContentIds |-> 0]
    /\ response = [s \in Slots |-> NoResponse]
    /\ audit_response = NoResponse
    /\ document = NoDocument
    /\ chunked = NotRun
    /\ rechunked = NotRun
    /\ prompt_args = NoPromptArgs
    /\ prompt_msgs = <<>>
    /\ brand_manual_chunks = InitialManualChunks
    /\ requested_by = InitialRequestedBy
    /\ gen = NoGeneration
    /\ inbox_response = NoInboxResponse
    /\ manual_req = NoManualRequest
    /\ llm_text = <<>>
    /\ extracted = NotExtracted
    /\ model_output = NoModelOutput
    /\ validated = NotValidated
    /\ manual_rows = << >>
    /\ persist_response = NoPersistResponse

\* the vision model answers only in a request that reaches it: a request that
\* is refused or fails earlier has no answer to enumerate
NoVisionOutput ==
    [verdict |-> JAbsent, validated_rules_count |-> JAbsent, violations |-> JAbsent]

AnswersWhen(reached) == IF reached THEN VisionOutputs ELSE { NoVisionOutput }

Reaches(fault) == fault \in {"none", "tracing_end"}

NextAudit ==
    \/ \E c \in {"c1", UnknownContentId}, p \in Auditors, f \in AuditFaults :
          \E a \in AnswersWhen(Reaches(f) /\ c \in DOMAIN content_items) :
            service_audit_image(c, p, a, f)
    \/ \E c \in {"c1", UnknownContentId}, p \in Profiles, f \in AuditFaults :
          \E a \in AnswersWhen(Reaches(f) /\ p \in Auditors
                                /\ c \in DOMAIN content_items) :
            route_audit_image(c, p, a, f)
    \/ \E b \in BrandIds, p \in Auditors, f \in AuditFaults :
          \E a \in AnswersWhen(Reaches(f) /\ brand_manuals[b] # <<>>) :
            service_audit_brand_image(b, p, a, f)
    \/ \E b \in BrandIds, p \in Profiles, f \in AuditFaults :
          \E a \in AnswersWhen(Reaches(f) /\ p \in Auditors
                                /\ brand_manuals[b] # <<>>) :
            route_audit_brand_image(b, p, a, f)

SpecAudit == InitAudit /\ [][NextAudit]_vars

\* the reranker alone: any candidate list, then one call
InitRerank ==
    /\ chunks \in SeqsUpTo(CandidatePool, MaxChunks)
    /\ content_type = ""
    /\ keep_k = 0
    /\ reranked = <<>>
    /\ rr_pc = "input"
    /\ content_items = InitialContentItems
    /\ brand_manuals = InitialBrandManuals
    /\ approvals = <<>>
    /\ audit_images = <<>>
    /\ brand_audit_images = <<>>
    /\ req = [s \in Slots |-> Idle]
    /\ n_started = 0
    /\ n_updates = [c \in ContentIds |-> 0]
    /\ response = [s \in Slots |-> NoResponse]
    /\ audit_response = NoResponse
    /\ document = NoDocument
    /\ chunked = NotRun
    /\ rechunked = NotRun
    /\ prompt_args = NoPromptArgs
    /\ prompt_msgs = <<>>
    /\ brand_manual_chunks = InitialManualChunks
    /\ requested_by = InitialRequestedBy
    /\ gen = NoGeneration
    /\ inbox_response = NoInboxResponse
    /\ manual_req = NoManualRequest
    /\ llm_text = <<>>
    /\ extracted = NotExtracted
    /\ model_output = NoModelOutput
    /\ validated = NotValidated
    /\ manual_rows = << >>
    /\ persist_response = NoPersistResponse

NextRerank ==
    \E ctype \in ContentTypes, k \in 0..MaxKeepK : Rerank(ctype, k)

SpecRerank == InitRerank /\ [][NextRerank]_vars

\* the labels the weight lookup is run on: the chunker's labels, the table's
\* entries, labels that extend or shorten an entry, and labels of no entry
WeightLabels ==
    { BASE_SECTION_WEIGHTS[i][1] : i \in 1..Len(BASE_SECTION_WEIGHTS) }
        \cup { "tone.description", "style_rules.reading_level",
               "style_rules.length_guidelines", "assumptions",
               "approval_checklist.extra", "tone.dos_and_donts", "tone.do",
               "messaging.forbidden", "messaging", "visual", "visual.logo",
               "examples", "style", "x.tone.dos", "" }

\* the reranker on lists of one or two chunks of any such label
InitWeight ==
    /\ chunks \in UNION { [1..m -> [section : WeightLabels, similarity : { <<10>> }]] :
                            m \in 1..2 }
    /\ content_type = ""
    /\ keep_k = 0
    /\ reranked = <<>>
    /\ rr_pc = "input"
    /\ content_items = InitialContentItems
    /\ brand_manuals = InitialBrandManuals
    /\ approvals = <<>>
    /\ audit_images = <<>>
    /\ brand_audit_images = <<>>
    /\ req = [s \in Slots |-> Idle]
    /\ n_started = 0
    /\ n_updates = [c \in ContentIds |-> 0]
    /\ response = [s \in Slots |-> NoResponse]
    /\ audit_response = NoResponse
    /\ document = NoDocument
    /\ chunked = NotRun
    /\ rechunked = NotRun
    /\ prompt_args = NoPromptArgs
    /\ prompt_msgs = <<>>
    /\ brand_manual_chunks = InitialManualChunks
    /\ requested_by = InitialRequestedBy
    /\ gen = NoGeneration
    /\ inbox_response = NoInboxResponse
    /\ manual_req = NoManualRequest
    /\ llm_text = <<>>
    /\ extracted = NotExtracted
    /\ model_output = NoModelOutput
    /\ validated = NotValidated
    /\ manual_rows = << >>
    /\ persist_response = NoPersistResponse

NextWeight ==
    \E ctype \in ContentTypes : Rerank(ctype, 2)

SpecWeight == InitWeight /\ [][NextWeight]_vars

\* the extractors alone: any answer of up to MaxText tokens
InitExtract ==
    /\ llm_text \in SeqsUpTo(Tokens, MaxText)
    /\ extracted = NotExtracted
    /\ model_output = NoModelOutput
    /\ validated = NotValidated
    /\ manual_rows = << >>
    /\ persist_response = NoPersistResponse
    /\ chunks = <<>>
    /\ content_type = ""
    /\ keep_k = 0
    /\ reranked = <<>>
    /\ rr_pc = "input"
    /\ content_items = InitialContentItems
    /\ brand_manuals = InitialBrandManuals
    /\ approvals = <<>>
    /\ audit_images = <<>>
    /\ brand_audit_images = <<>>
    /\ req = [s \in Slots |-> Idle]
    /\ n_started = 0
    /\ n_updates = [c \in ContentIds |-> 0]
    /\ response = [s \in Slots |-> NoResponse]
    /\ audit_response = NoResponse
    /\ document = NoDocument
    /\ chunked = NotRun
    /\ rechunked = NotRun
    /\ prompt_args = NoPromptArgs
    /\ prompt_msgs = <<>>
    /\ brand_manual_chunks = InitialManualChunks
    /\ requested_by = InitialRequestedBy
    /\ gen = NoGeneration
    /\ inbox_response = NoInboxResponse
    /\ manual_req = NoManualRequest

NextExtract == ExtractJson

SpecExtract == InitExtract /\ [][NextExtract]_vars

-----------------------------------------------------------------------------
InitManualJson ==
    /\ model_output \in ModelOutputs
    /\ validated = NotValidated
    /\ manual_rows = << >>
    /\ persist_response = NoPersistResponse
    /\ llm_text = <<>>
    /\ extracted = NotExtracted
    /\ chunks = <<>>
    /\ content_type = ""
    /\ keep_k = 0
    /\ reranked = <<>>
    /\ rr_pc = "input"
    /\ content_items = InitialContentItems
    /\ brand_manuals = InitialBrandManuals
    /\ approvals = <<>>
    /\ audit_images = <<>>
    /\ brand_audit_images = <<>>
    /\ req = [s \in Slots |-> Idle]
    /\ n_started = 0
    /\ n_updates = [c \in ContentIds |-> 0]
    /\ response = [s \in Slots |-> NoResponse]
    /\ audit_response = NoResponse
    /\ document = NoDocument
    /\ chunked = NotRun
    /\ rechunked = NotRun
    /\ prompt_args = NoPromptArgs
    /\ prompt_msgs = <<>>
    /\ brand_manual_chunks = InitialManualChunks
    /\ requested_by = InitialRequestedBy
    /\ gen = NoGeneration
    /\ inbox_response = NoInboxResponse
    /\ manual_req = NoManualRequest

NextManualJson == \E f \in PersistFaults : create_manual_persist("b1", f)

SpecManualJson == InitManualJson /\ [][NextManualJson]_vars

\* the chunker alone: any manual, chunked and chunked again
InitChunk ==
    /\ document \in Manuals
    /\ chunked = NotRun
    /\ rechunked = NotRun
    /\ prompt_args = NoPromptArgs
    /\ prompt_msgs = <<>>
    /\ brand_manual_chunks = InitialManualChunks
    /\ requested_by = InitialRequestedBy
    /\ gen = NoGeneration
    /\ inbox_response = NoInboxResponse
    /\ manual_req = NoManualRequest
    /\ llm_text = <<>>
    /\ extracted = NotExtracted
    /\ model_output = NoModelOutput
    /\ validated = NotValidated
    /\ manual_rows = << >>
    /\ persist_response = NoPersistResponse
    /\ chunks = <<>>
    /\ content_type = ""
    /\ keep_k = 0
    /\ reranked = <<>>
    /\ rr_pc = "input"
    /\ content_items = InitialContentItems
    /\ brand_manuals = InitialBrandManuals
    /\ approvals = <<>>
    /\ audit_images = <<>>
    /\ brand_audit_images = <<>>
    /\ req = [s \in Slots |-> Idle]
    /\ n_started = 0
    /\ n_updates = [c \in ContentIds |-> 0]
    /\ response = [s \in Slots |-> NoResponse]
    /\ audit_response = NoResponse

NextChunk == ChunkManual \/ ChunkManualAgain

SpecChunk == InitChunk /\ [][NextChunk]_vars

\* the prompt assembler alone: any content type, brief and ranked list
InitPrompt ==
    /\ prompt_args \in [content_type : ContentTypes, brief : Briefs,
                         rag_chunks : SeqsUpTo(PromptChunks, MaxChunks)]
    /\ prompt_msgs = <<>>
    /\ brand_manual_chunks = InitialManualChunks
    /\ requested_by = InitialRequestedBy
    /\ gen = NoGeneration
    /\ inbox_response = NoInboxResponse
    /\ manual_req = NoManualRequest
    /\ llm_text = <<>>
    /\ extracted = NotExtracted
    /\ model_output = NoModelOutput
    /\ validated = NotValidated
    /\ manual_rows = << >>
    /\ persist_response = NoPersistResponse
    /\ document = NoDocument
    /\ chunked = NotRun
    /\ rechunked = NotRun
    /\ chunks = <<>>
    /\ content_type = ""
    /\ keep_k = 0
    /\ reranked = <<>>
    /\ rr_pc = "input"
    /\ content_items = InitialContentItems
    /\ brand_manuals = InitialBrandManuals
    /\ approvals = <<>>
    /\ audit_images = <<>>
    /\ brand_audit_images = <<>>
    /\ req = [s \in Slots |-> Idle]
    /\ n_started = 0
    /\ n_updates = [c \in ContentIds |-> 0]
    /\ response = [s \in Slots |-> NoResponse]
    /\ audit_response = NoResponse

NextPrompt == BuildPrompt

SpecPrompt == InitPrompt /\ [][NextPrompt]_vars

-----------------------------------------------------------------------------
(* Content generation.  POST /content/generate is served by generate of     *)
(* app/routes/content.py; generate_content of app/services/content.py is    *)
(* the same pipeline with a rerank step.  A request is one step: its        *)
(* pipeline steps, in the order they ran, are kept in gen.steps.            *)

\* which collaborator raises, if any: "tracing" is langfuse.trace at the
\* start, "insert" an insert that returns no row
GenFaults == { "none", "tracing", "embedding", "retrieval", "provider", "insert" }

GenAnswer(flow, caller, brand_id, ctype, brief, steps, retrieved, prompt, kind, http, exc, content_id, queried) ==
    [flow |-> flow, caller |-> caller.id, brand_id |-> brand_id,
     content_type |-> ctype, brief |-> brief, steps |-> steps,
     retrieved |-> retrieved, prompt |-> prompt, kind |-> kind, http |-> http,
     exc |-> exc, content_id |-> content_id, manual_id |-> queried,
     call |-> gen.call + 1]

\* the text the generation provider returns
OutputText == "texto generado"

\* a check that is content with two chunks
rag_insufficient_below_two(rag_chunks) == Len(rag_chunks) < 2

\* if len(rag_chunks) < 3: the "rag_insufficient" precondition failure
rag_insufficient(rag_chunks) == Len(rag_chunks) < 3

\* the pipeline of both flows; the answer's manual_id is the manual whose
\* chunks the retrieval queried, if it got that far; reranks says whether the flow calls
\* rerank_chunks(rag_chunks, req.type, keep_k=6) between retrieval and prompt
GenerateFlow(flow, reranks, caller, brand_id, ctype, brief, fault) ==
    /\ gen.call < MaxGenerations
    /\ LET manual_id == latest_manual(brand_id)
           retrieved == match_manual_chunks(brand_manual_chunks, manual_id, brief, 6)
           used == IF reranks THEN rerank_chunks(retrieved, ctype, 6) ELSE retrieved
           prompt == build_generation_prompt(ctype, brief, used)
           before == IF reranks
                     THEN << "embed", "retrieve", "rerank", "prompt", "generate" >>
                     ELSE << "embed", "retrieve", "prompt", "generate" >>
           new_id == ItemId(Cardinality(DOMAIN content_items) + 1)
           Fail(steps, got, msgs, kind, http, exc) ==
               /\ gen' = GenAnswer(flow, caller, brand_id, ctype, brief, steps, got,
                                   msgs, kind, http, exc, "",
                                   IF Len(steps) >= 2 THEN manual_id ELSE "")
               /\ UNCHANGED << content_items, requested_by, n_updates >>
       IN  IF fault = "tracing"
           THEN Fail(<< >>, << >>, << >>, "error", 500, fault)
           ELSE IF brand_manuals[brand_id] = << >>
           THEN Fail(<< >>, << >>, << >>, "conflict", 409, "")
           ELSE IF fault = "embedding"
           THEN Fail(<< "embed" >>, << >>, << >>, "error", 500, fault)
           ELSE IF fault = "retrieval"
           THEN Fail(<< "embed", "retrieve" >>, << >>, << >>, "error", 500, fault)
           ELSE IF rag_insufficient(retrieved)
           THEN Fail(<< "embed", "retrieve" >>, retrieved, << >>,
                     "insufficient_context", 422, "")
           ELSE IF fault = "provider"
           THEN Fail(before, retrieved, prompt, "error", 500, fault)
           ELSE IF fault = "insert"
           THEN Fail(Append(before, "persist"), retrieved, prompt, "error", 500, fault)
           ELSE /\ content_items' = content_items @@
                     (new_id :> ContentRow(brand_id, manual_id, ctype, brief,
                                           OutputText, used,
                                           Cardinality(DOMAIN content_items) + 1))
                /\ requested_by' = requested_by @@ (new_id :> caller.id)
                /\ n_updates' = n_updates @@ (new_id :> 0)
                /\ gen' = GenAnswer(flow, caller, brand_id, ctype, brief,
                                    Append(before, "persist"), retrieved, prompt,
                                    "ok", 200, "", new_id, manual_id)
    /\ UNCHANGED << parse_vars, chunk_vars, prompt_vars, brand_manual_chunks, inbox_response,
                    manual_req, rr_vars, brand_manuals, approvals, audit_images,
                    brand_audit_images, req, n_started, response, audit_response >>

\* app/routes/content.py generate, the handler of POST /content/generate
route_generate(caller, brand_id, ctype, brief, fault) ==
    GenerateFlow("route.generate", FALSE, caller, brand_id, ctype, brief, fault)

\* app/services/content.py generate_content
service_generate_content(caller, brand_id, ctype, brief, fault) ==
    GenerateFlow("service.generate_content", TRUE, caller, brand_id, ctype,
                 brief, fault)

\* the chunk stores a generation may find: manual m1 fully indexed, indexed
\* with two chunks only, or not indexed yet
ChunkStores ==
    { [m \in { "m1" } |-> SubSeq(ManualOneChunks, 1, n)] : n \in { 0, 2, 3, 4 } }

\* generation alone, on a manual indexed in full, in part or not at all
InitGenerate ==
    /\ brand_manual_chunks \in ChunkStores
    /\ requested_by = InitialRequestedBy
    /\ gen = NoGeneration
    /\ inbox_response = NoInboxResponse
    /\ manual_req = NoManualRequest
    /\ llm_text = <<>>
    /\ extracted = NotExtracted
    /\ model_output = NoModelOutput
    /\ validated = NotValidated
    /\ manual_rows = << >>
    /\ persist_response = NoPersistResponse
    /\ prompt_args = NoPromptArgs
    /\ prompt_msgs = <<>>
    /\ document = NoDocument
    /\ chunked = NotRun
    /\ rechunked = NotRun
    /\ chunks = <<>>
    /\ content_type = ""
    /\ keep_k = 0
    /\ reranked = <<>>
    /\ rr_pc = "input"
    /\ content_items = InitialContentItems
    /\ brand_manuals = InitialBrandManuals
    /\ approvals = <<>>
    /\ audit_images = <<>>
    /\ brand_audit_images = <<>>
    /\ req = [s \in Slots |-> Idle]
    /\ n_started = 0
    /\ n_updates = [c \in ContentIds |-> 0]
    /\ response = [s \in Slots |-> NoResponse]
    /\ audit_response = NoResponse

NextGenerate ==
    \/ \E p \in { q \in Profiles : q.id = "u1" }, b \in BrandIds,
          t \in ContentTypes, q \in Briefs, f \in GenFaults :
            route_generate(p, b, t, q, f)
    \/ \E p \in { q \in Profiles : q.id = "u1" }, b \in BrandIds,
          t \in ContentTypes, q \in Briefs, f \in GenFaults :
            service_generate_content(p, b, t, q, f)

SpecGenerate == InitGenerate /\ [][NextGenerate]_vars

-----------------------------------------------------------------------------
(* Approve / reject.  routes/governance.py approve and reject, and          *)
(* services/governance.py _record_decision, run the same two record-store   *)
(* calls: the status update, then the insert of the approval row.  Each     *)
(* call is one step; a request is in flight between them.                   *)

ApproverRoles == { "approver_a", "approver_b" }
Decisions == { "APPROVED", "REJECTED" }
Comments == { <<>>, <<"ok">> }      \* DecisionBody.comment: None or a text

\* which collaborator raises in the step, if any
UpdateFaults == { "none", "tracing", "record_store" }
InsertFaults == { "none", "record_store", "tracing_end" }

\* an update without the .eq("id", content_id) filter: every row is set
update_content_status_every_row(items, content_id, status) ==
    [c \in DOMAIN items |-> [items[c] EXCEPT !.status = status]]

\* repositories/governance.py update_content_status: the table after
\* update({"status": status}).eq("id", content_id)
update_content_status(items, content_id, status) ==
    IF content_id \in DOMAIN items
    THEN [items EXCEPT ![content_id].status = status]
    ELSE items

\* the not-found check left out: every update is taken to have matched
row_existed_unchecked(items, content_id) == TRUE

\* bool(upd.data): whether the update matched a row
row_existed(items, content_id) == content_id \in DOMAIN items

\* repositories/governance.py insert_approval: the row it inserts
approval_row(content_id, role, decision, comment, created_by) ==
    [content_item_id |-> content_id, role |-> role, decision |-> decision,
     comment |-> comment, created_by |-> created_by]

\* an insert that replaces the table's rows instead of adding to them
insert_approval_replacing(table, content_id, role, decision, comment, created_by) ==
    << approval_row(content_id, role, decision, comment, created_by) >>

insert_approval(table, content_id, role, decision, comment, created_by) ==
    Append(table, approval_row(content_id, role, decision, comment, created_by))

\* first step of approve (decision = "APPROVED") and reject ("REJECTED"):
\* the role guard, the trace, the status update and its not-found check
DecisionUpdate(s, decision, content_id, comment, profile, fault) ==
    /\ req[s].pc = "idle"
    /\ n_started < MaxRequests
    /\ n_started' = n_started + 1
    /\ IF ~require_roles(profile, ApproverRoles)
       THEN /\ response' = [response EXCEPT ![s] =
                    Response("forbidden", 403, "", decision, content_id, n_started + 1)]
            /\ UNCHANGED << content_items, n_updates, req >>
       ELSE IF fault # "none"
       THEN /\ response' = [response EXCEPT ![s] =
                    Response("error", 500, fault, decision, content_id, n_started + 1)]
            /\ UNCHANGED << content_items, n_updates, req >>
       ELSE /\ content_items' =
                  update_content_status(content_items, content_id, decision)
            /\ n_updates' =
                  IF content_id \in DOMAIN content_items
                  THEN [n_updates EXCEPT ![content_id] = @ + 1]
                  ELSE n_updates
            /\ IF ~row_existed(content_items, content_id)
               THEN /\ response' = [response EXCEPT ![s] =
                          Response("not_found", 404, "", decision, content_id,
                                   n_started + 1)]
                    /\ UNCHANGED req
               ELSE /\ req' = [req EXCEPT ![s] =
                          [pc |-> "insert", decision |-> decision,
                           content_id |-> content_id, comment |-> comment,
                           profile |-> profile, call |-> n_started + 1]]
                    /\ UNCHANGED response
    /\ UNCHANGED << ext_vars, rr_vars, brand_manuals, approvals, audit_images,
                    brand_audit_images, audit_response >>

\* second step: the insert of the approval row, the closing trace.update
\* and the answer
DecisionInsert(s, fault) ==
    /\ req[s].pc = "insert"
    /\ IF fault = "record_store"
       THEN /\ response' = [response EXCEPT ![s] =
                    Response("error", 500, fault, req[s].decision, req[s].content_id,
                             req[s].call)]
            /\ UNCHANGED approvals
       ELSE /\ approvals' =
                  insert_approval(approvals, req[s].content_id, req[s].profile.role,
                                  req[s].decision, req[s].comment, req[s].profile.id)
            /\ response' = [response EXCEPT ![s] =
                  IF fault = "tracing_end"
                  THEN Response("error", 500, fault, req[s].decision,
                                req[s].content_id, req[s].call)
                  ELSE Response("ok", 200, "", req[s].decision,
                                req[s].content_id, req[s].call)]
    /\ req' = [req EXCEPT ![s] = Idle]
    /\ UNCHANGED << ext_vars, rr_vars, content_items, brand_manuals, audit_images,
                    brand_audit_images, n_started, n_updates, audit_response >>

Init ==
    /\ chunks = <<>>
    /\ content_type = ""
    /\ keep_k = 0
    /\ reranked = <<>>
    /\ rr_pc = "input"
    /\ content_items = InitialContentItems
    /\ brand_manuals = InitialBrandManuals
    /\ approvals = <<>>
    /\ audit_images = <<>>
    /\ brand_audit_images = <<>>
    /\ req = [s \in Slots |-> Idle]
    /\ n_started = 0
    /\ n_updates = [c \in ContentIds |-> 0]
    /\ response = [s \in Slots |-> NoResponse]
    /\ audit_response = NoResponse
    /\ document = NoDocument
    /\ chunked = NotRun
    /\ rechunked = NotRun
    /\ prompt_args = NoPromptArgs
    /\ prompt_msgs = <<>>
    /\ brand_manual_chunks = InitialManualChunks
    /\ requested_by = InitialRequestedBy
    /\ gen = NoGeneration
    /\ inbox_response = NoInboxResponse
    /\ manual_req = NoManualRequest
    /\ llm_text = <<>>
    /\ extracted = NotExtracted
    /\ model_output = NoModelOutput
    /\ validated = NotValidated
    /\ manual_rows = << >>
    /\ persist_response = NoPersistResponse

\* one worker: requests are served one after the other
Worker == "r1"

Next ==
    \/ \E d \in Decisions, c \in ContentIds \cup {UnknownContentId},
          m \in Comments, p \in Profiles, f \in UpdateFaults :
            DecisionUpdate(Worker, d, c, m, p, f)
    \/ \E f \in InsertFaults : DecisionInsert(Worker, f)

Spec == Init /\ [][Next]_vars

\* two requests in flight at once: approve and reject calls of the two
\* approvers on the same items, each call's two record-store steps
\* interleaving freely with the other's; no collaborator fails
InitConcurrent ==
    /\ content_items = InitialContentItems
    /\ approvals = <<>>
    /\ req = [s \in Slots |-> Idle]
    /\ n_started = 0
    /\ n_updates = [c \in ContentIds |-> 0]
    /\ response = [s \in Slots |-> NoResponse]
    /\ audit_response = NoResponse
    /\ brand_manuals = InitialBrandManuals
    /\ audit_images = <<>>
    /\ brand_audit_images = <<>>
    /\ brand_manual_chunks = InitialManualChunks
    /\ requested_by = InitialRequestedBy
    /\ gen = NoGeneration
    /\ inbox_response = NoInboxResponse
    /\ manual_req = NoManualRequest
    /\ llm_text = <<>>
    /\ extracted = NotExtracted
    /\ model_output = NoModelOutput
    /\ validated = NotValidated
    /\ manual_rows = << >>
    /\ persist_response = NoPersistResponse
    /\ chunks = <<>>
    /\ content_type = ""
    /\ keep_k = 0
    /\ reranked = <<>>
    /\ rr_pc = "input"
    /\ document = NoDocument
    /\ chunked = NotRun
    /\ rechunked = NotRun
    /\ prompt_args = NoPromptArgs
    /\ prompt_msgs = <<>>

NextConcurrent ==
    \/ \E s \in Slots, d \in Decisions, c \in ContentIds,
          p \in { q \in Profiles : q.role \in ApproverRoles } :
            DecisionUpdate(s, d, c, <<>>, p, "none")
    \/ \E s \in Slots : DecisionInsert(s, "none")

SpecConcurrent == InitConcurrent /\ [][NextConcurrent]_vars

-----------------------------------------------------------------------------
(* Inbox.  GET /inbox of app/routes/governance.py runs the query of        *)
(* fetch_content_for_inbox: one read of content_items, one step.           *)

\* .limit(50) of both inbox queries
InboxLimit == 50

\* select("id, brand_id, type, status, input_brief, output_text, created_at,
\* brand_manual_id")
InboxColumns(items, c) ==
    [id |-> c, brand_id |-> items[c].brand_id, type |-> items[c].type,
     status |-> items[c].status, input_brief |-> items[c].input_brief,
     output_text |-> items[c].output_text, created_at |-> items[c].created_at,
     brand_manual_id |-> items[c].brand_manual_id]

\* .order("created_at", desc=True).limit(n) over the rows ids; created_at
\* is the store's insertion clock, at most the number of rows
NewestFirst(items, ids, n) ==
    LET times == { items[c].created_at : c \in ids }
        clock == Cardinality(DOMAIN items)
        desc == SelectSeq([i \in 1..clock |-> clock + 1 - i],
                          LAMBDA k : k \in times)
    IN  [i \in 1..Min(n, Len(desc)) |->
            InboxColumns(items, CHOOSE c \in ids : items[c].created_at = desc[i])]

\* a query without the status filter
fetch_content_for_inbox_any_status(items, profile) ==
    NewestFirst(items, DOMAIN items, InboxLimit)

\* repositories/governance.py fetch_content_for_inbox, and the same two
\* queries in the route: a creator gets the rows whose created_by is their
\* id, every other role the PENDING rows
fetch_content_for_inbox(items, profile) ==
    IF profile.role = "creator"
    THEN NewestFirst(items,
                     { c \in DOMAIN items : items[c].created_by = << profile.id >> },
                     InboxLimit)
    ELSE NewestFirst(items,
                     { c \in DOMAIN items : items[c].status = "PENDING" },
                     InboxLimit)

InboxFaults == { "none", "record_store" }

\* GET /inbox: the answer to the caller
inbox(profile, fault) ==
    /\ inbox_response' =
          [caller |-> profile,
           kind |-> IF fault = "none" THEN "ok" ELSE "error",
           items |-> IF fault = "none"
                     THEN fetch_content_for_inbox(content_items, profile)
                     ELSE << >>]
    /\ UNCHANGED << parse_vars, chunk_vars, prompt_vars, brand_manual_chunks, requested_by,
                    gen, manual_req, rr_vars, store_vars, req_vars,
                    audit_response >>

-----------------------------------------------------------------------------
(* Manual creation.  POST /brands/{brand_id}/manual of app/routes/brands.py *)
(* inserts the manual row, then chunks, embeds and inserts the chunks: two  *)
(* record-store calls, two steps.                                           *)

\* validated manuals the provider's answer parses to
RichManual ==
    Manual(<< [description |-> "Cercano y directo", dos |-> << "Habla claro" >>,
               donts |-> << "Sin jerga" >>] >>,
           << [value_props |-> << >>, taglines |-> << "Recarga tu dia" >>,
               forbidden_claims |-> << >>, preferred_terms |-> << >>,
               forbidden_terms |-> << "X" >>] >>,
           << [reading_level |-> "simple", length_guidelines |-> << >>] >>,
           << [colors |-> << >>, logo_rules |-> << "Logo visible" >>,
               typography |-> << >>, image_style |-> << >>, notes |-> << >>] >>,
           << [good |-> << >>, bad |-> << >>] >>,
           << << >> >>, << << >> >>)

SparseManual ==
    Manual(<< [description |-> "", dos |-> << >>, donts |-> << >>] >>,
           << [value_props |-> << >>, taglines |-> << >>,
               forbidden_claims |-> << >>, preferred_terms |-> << >>,
               forbidden_terms |-> << "X" >>] >>,
           << [reading_level |-> "simple", length_guidelines |-> << >>] >>,
           << [colors |-> << >>, logo_rules |-> << >>, typography |-> << >>,
               image_style |-> << >>, notes |-> << >>] >>,
           << [good |-> << >>, bad |-> << >>] >>,
           << << >> >>, << << >> >>)

NewManuals == { RichManual, SparseManual }

\* which collaborator fails in the step, if any: "provider" is the Groq
\* call, "invalid" an answer that does not validate, "insert" an insert
\* that returns no row
ManualInsertFaults == { "none", "provider", "invalid", "insert" }
ManualIndexFaults == { "none", "embedding", "insert" }

ManualAnswer(pc, brand_id, manual_id, manual, kind, http) ==
    [pc |-> pc, brand_id |-> brand_id, manual_id |-> manual_id,
     manual |-> manual, kind |-> kind, http |-> http]

\* the number of manual rows in the store
ManualCount ==
    LET RECURSIVE Sum(_)
        Sum(bs) == IF bs = {} THEN 0
                   ELSE LET b == CHOOSE x \in bs : TRUE
                        IN  Len(brand_manuals[b]) + Sum(bs \ {b})
    IN  Sum(BrandIds)

\* create_manual up to the insert of the manual row
create_manual_insert(brand_id, manual, fault) ==
    /\ manual_req.pc = "idle"
    /\ Len(brand_manuals[brand_id]) < MaxManuals
    /\ IF fault = "none"
       THEN LET manual_id == ManualId(ManualCount + 1)
            IN  /\ brand_manuals' =
                      [brand_manuals EXCEPT ![brand_id] = Append(@, manual_id)]
                /\ manual_req' = ManualAnswer("chunks", brand_id, manual_id,
                                              manual, "none", 0)
       ELSE /\ manual_req' =
                  ManualAnswer("idle", brand_id, "", EmptyDict, "error",
                               IF fault = "invalid" THEN 422 ELSE 500)
            /\ UNCHANGED brand_manuals
    /\ UNCHANGED << parse_vars, chunk_vars, prompt_vars, brand_manual_chunks, requested_by,
                    gen, inbox_response, rr_vars, content_items, approvals,
                    audit_images, brand_audit_images, req_vars, audit_response >>

\* the rest of create_manual: chunk_manual, embed_texts and the insert of
\* the chunks
create_manual_index(fault) ==
    /\ manual_req.pc = "chunks"
    /\ LET result == chunk_manual(manual_req.manual)
           rows == [i \in 1..Len(result.chunks) |->
                      [section |-> result.chunks[i].section,
                       chunk_text |-> result.chunks[i].chunk_text]]
       IN  IF ~result.ok \/ fault # "none"
           THEN /\ manual_req' =
                      ManualAnswer("idle", manual_req.brand_id, manual_req.manual_id,
                                   EmptyDict, "error", 500)
                /\ UNCHANGED brand_manual_chunks
           ELSE /\ brand_manual_chunks' =
                      brand_manual_chunks @@ (manual_req.manual_id :> rows)
                /\ manual_req' =
                      ManualAnswer("idle", manual_req.brand_id, manual_req.manual_id,
                                   EmptyDict, "ok", 200)
    /\ UNCHANGED << parse_vars, chunk_vars, prompt_vars, requested_by, gen, inbox_response,
                    rr_vars, store_vars, req_vars, audit_response >>

-----------------------------------------------------------------------------
(* The inbox on a store that holds more items than one query returns,      *)
(* between generations and decisions.                                      *)

LargeStore == StoredItems(ManyItems)

Newest == ItemId(ManyItems)
Creators == { p \in Profiles : p.role = "creator" }

InitInbox ==
    /\ content_items = LargeStore
    /\ requested_by = RequestersOf(LargeStore)
    /\ n_updates = [c \in DOMAIN LargeStore |-> 0]
    /\ brand_manual_chunks = InitialManualChunks
    /\ gen = NoGeneration
    /\ inbox_response = NoInboxResponse
    /\ manual_req = NoManualRequest
    /\ llm_text = <<>>
    /\ extracted = NotExtracted
    /\ model_output = NoModelOutput
    /\ validated = NotValidated
    /\ manual_rows = << >>
    /\ persist_response = NoPersistResponse
    /\ prompt_args = NoPromptArgs
    /\ prompt_msgs = <<>>
    /\ document = NoDocument
    /\ chunked = NotRun
    /\ rechunked = NotRun
    /\ chunks = <<>>
    /\ content_type = ""
    /\ keep_k = 0
    /\ reranked = <<>>
    /\ rr_pc = "input"
    /\ brand_manuals = InitialBrandManuals
    /\ approvals = <<>>
    /\ audit_images = <<>>
    /\ brand_audit_images = <<>>
    /\ req = [s \in Slots |-> Idle]
    /\ n_started = 0
    /\ response = [s \in Slots |-> NoResponse]
    /\ audit_response = NoResponse

NextInbox ==
    \/ \E p \in Creators :
          route_generate(p, "b1", "product_description", "Lata 250ml sabor limon",
                         "none")
    \/ \E p \in Profiles, f \in InboxFaults : inbox(p, f)
    \/ \E d \in Decisions, c \in { Newest, ItemId(ManyItems + 1) },
          p \in { q \in Profiles : q.id = "u2" } :
            DecisionUpdate(Worker, d, c, <<>>, p, "none")
    \/ DecisionInsert(Worker, "none")

SpecInbox == InitInbox /\ [][NextInbox]_vars

-----------------------------------------------------------------------------
(* The content store under all its operations: generation, inbox,          *)
(* decisions, image audits and manual creation.                            *)

\* the vision model's answer to the audits of this specification
CheckAnswer ==
    [verdict |-> JStr("CHECK"), validated_rules_count |-> JInt(1),
     violations |-> JList(0)]

InitContent ==
    /\ content_items = InitialContentItems
    /\ requested_by = InitialRequestedBy
    /\ n_updates = [c \in ContentIds |-> 0]
    /\ brand_manual_chunks = InitialManualChunks
    /\ gen = NoGeneration
    /\ inbox_response = NoInboxResponse
    /\ manual_req = NoManualRequest
    /\ llm_text = <<>>
    /\ extracted = NotExtracted
    /\ model_output = NoModelOutput
    /\ validated = NotValidated
    /\ manual_rows = << >>
    /\ persist_response = NoPersistResponse
    /\ prompt_args = NoPromptArgs
    /\ prompt_msgs = <<>>
    /\ document = NoDocument
    /\ chunked = NotRun
    /\ rechunked = NotRun
    /\ chunks = <<>>
    /\ content_type = ""
    /\ keep_k = 0
    /\ reranked = <<>>
    /\ rr_pc = "input"
    /\ brand_manuals = InitialBrandManuals
    /\ approvals = <<>>
    /\ audit_images = <<>>
    /\ brand_audit_images = <<>>
    /\ req = [s \in Slots |-> Idle]
    /\ n_started = 0
    /\ response = [s \in Slots |-> NoResponse]
    /\ audit_response = NoResponse

NextContent ==
    \/ \E p \in { q \in Creators : q.id = "u1" } :
          route_generate(p, "b1", "product_description", "Lata 250ml sabor limon",
                         "none")
    \/ \E p \in { q \in Creators : q.id = "u1" } :
          service_generate_content(p, "b1", "video_script", "Promo [verano]", "none")
    \/ \E p \in { q \in Profiles : q.id \in { "u1", "u2" } } : inbox(p, "none")
    \/ \E d \in Decisions, c \in { "c2", "c3" },
          p \in { q \in Profiles : q.id = "u2" } :
            DecisionUpdate(Worker, d, c, <<>>, p, "none")
    \/ DecisionInsert(Worker, "none")
    \/ \E p \in Auditors : service_audit_image("c2", p, CheckAnswer, "none")
    \/ \E p \in Auditors : route_audit_image("c2", p, CheckAnswer, "none")
    \/ \E p \in Auditors : route_audit_brand_image("b1", p, CheckAnswer, "none")
    \/ \E m \in NewManuals : create_manual_insert("b1", m, "none")
    \/ \E f \in { "none", "insert" } : create_manual_index(f)

SpecContent == InitContent /\ [][NextContent]_vars

-----------------------------------------------------------------------------
(* Properties of the image audits *)

AuditRows ==
    { audit_images[i] : i \in 1..Len(audit_images) }
        \cup { brand_audit_images[i] : i \in 1..Len(brand_audit_images) }

\* the verdict a flow persists for a model answer
PersistedVerdict(flow, audit) ==
    IF flow = "route.audit_image"
    THEN route_verdict(audit)
    ELSE JStr(deterministic_verdict(audit))

\* C1: in every audit flow the persisted verdict does not depend on the
\* model's own verdict: the answer of a persisted report with its verdict field
\* replaced by any other value gives the same persisted verdict.
C1_ModelVerdictNeverUsed ==
    \A r \in AuditRows : \A v \in VisionVerdicts :
        PersistedVerdict(r.flow, [r.raw EXCEPT !.verdict = v]) = r.verdict

\* The policy as the claim words it: the numeric value of the count (0 when
\* absent, null or not a number) and whether the violation list has an item.
ClaimedCount(j) ==
    IF j.kind = "int" THEN j.n
    ELSE IF j.kind = "str" /\ IsIntLiteral(j.s) THEN ParseDigits(strip(j.s), 0)
    ELSE 0

ClaimedNonEmpty(j) == j.kind = "list" /\ j.n > 0

ClaimedPolicy(audit) ==
    IF ClaimedNonEmpty(audit.violations) THEN "FAIL"
    ELSE IF ClaimedCount(audit.validated_rules_count) < 2 THEN "FAIL"
    ELSE "CHECK"

PolicyFlows == { "service.audit_image", "service.audit_brand_image",
                 "route.audit_brand_image" }

\* C2: wherever the deterministic policy is applied (both brand audits and the
\* content-item audit service), the persisted verdict is FAIL when the answer
\* lists a violation, FAIL when it lists none and validates fewer than two
\* rules (an absent or non-numeric count is 0), and CHECK otherwise; the
\* report's count is that numeric value.
C2_VerdictPolicy ==
    \A r \in AuditRows :
        r.flow \in PolicyFlows =>
            /\ r.verdict = JStr(ClaimedPolicy(r.raw))
            /\ r.validated_rules_count = JInt(ClaimedCount(r.raw.validated_rules_count))

\* a brand audit that persisted CHECK over the model's FAIL, one that
\* persisted FAIL for a count of 1, and one that persisted FAIL for a violation
C2_Witness ==
    /\ \E r \in AuditRows :
          /\ r.flow = "route.audit_brand_image"
          /\ r.raw.verdict = JStr("FAIL")
          /\ r.raw.violations = JList(0)
          /\ r.raw.validated_rules_count = JStr("2")
          /\ r.verdict = JStr("CHECK")
    /\ audit_response.kind = "ok"

\* C3: every persisted audit report has a verdict that is CHECK or FAIL.
C3_VerdictIsCheckOrFail ==
    \A r \in AuditRows : r.verdict \in { JStr("CHECK"), JStr("FAIL") }

-----------------------------------------------------------------------------
(* Properties of the reranker *)

Count(x, seq) == Cardinality({ i \in 1..Len(seq) : seq[i] = x })

\* the chunks of the input that the output leaves out, as a set of values
Dropped == { chunks[i] : i \in 1..Len(chunks) } \ { x \in { chunks[i] : i \in 1..Len(chunks) } :
                 Count(x, reranked) >= Count(x, chunks) }

\* the weight of a chunk's section in the fixed priority table
TableWeight(c) == weight_for_section(c.section)

IsForbidden(c) ==
    \/ startswith(c.section, "messaging.forbidden_claims")
    \/ startswith(c.section, "messaging.forbidden_terms")

ForbiddenIn(seq) == Cardinality({ i \in 1..Len(seq) : IsForbidden(seq[i]) })

C6_LengthAndSubMultiset ==
    /\ [](rr_pc = "done" =>
            /\ Len(reranked) = Min(keep_k, Len(chunks))
            /\ \A p \in 1..Len(reranked) :
                  Count(reranked[p], reranked) <= Count(reranked[p], chunks))
    /\ [][chunks' = chunks]_vars

\* a call that truncates a list holding the same chunk twice
C6_Witness ==
    /\ rr_pc = "done"
    /\ Len(chunks) = 3
    /\ chunks[1] = chunks[3]
    /\ keep_k = 2
    /\ Len(reranked) = 2

-----------------------------------------------------------------------------
(* Properties of approve / reject *)

\* slot s ran its status update in this step and goes on to the insert
StartedInsert(s) == req[s].pc = "idle" /\ req'[s].pc = "insert"

\* slot s answered in its first step: refused, failed or not found
FinishedAtUpdate(s) == req[s].pc = "idle" /\ response'[s] # response[s]

\* slot s ran its insert step and answered
FinishedAtInsert(s) == req[s].pc = "insert" /\ req'[s].pc = "idle"

IsPrefix(a, b) == Len(a) <= Len(b) /\ SubSeq(b, 1, Len(a)) = a

ApprovalsOf(c) ==
    Cardinality({ i \in 1..Len(approvals) : approvals[i].content_item_id = c })

\* C7: when approve (reject) succeeds on an existing item, the item's status is
\* APPROVED (REJECTED) and the request appended exactly one approval row, with
\* its decision and the caller's role and id; the status update itself writes
\* no row, and the rows stored before are never changed.
C7_DecisionRecorded ==
    [][ /\ IsPrefix(approvals, approvals')
        /\ \A s \in Slots :
            /\ StartedInsert(s) =>
                  /\ approvals' = approvals
                  /\ content_items'[req'[s].content_id].status = req'[s].decision
            /\ (FinishedAtInsert(s) /\ response'[s].kind = "ok") =>
                  /\ approvals' = Append(approvals,
                        [content_item_id |-> req[s].content_id,
                         role |-> req[s].profile.role,
                         decision |-> req[s].decision,
                         comment |-> req[s].comment,
                         created_by |-> req[s].profile.id])
                  /\ content_items'[req[s].content_id].status = req[s].decision
                  /\ response'[s].decision = req[s].decision
      ]_vars

\* an approve that succeeded on an item rejected before: two rows, the older
\* one still there
C7_Witness ==
    /\ response[Worker].kind = "ok"
    /\ response[Worker].decision = "APPROVED"
    /\ content_items[response[Worker].content_id].status = "APPROVED"
    /\ Len(approvals) = 2
    /\ approvals[1].decision = "REJECTED"
    /\ approvals[2].decision = "APPROVED"
    /\ approvals[2].content_item_id = response[Worker].content_id
    /\ approvals[1].content_item_id = response[Worker].content_id

C9_DecidedIsTerminal ==
    [][ \A c \in DOMAIN content_items :
          content_items[c].status \in Decisions =>
              content_items'[c].status = content_items[c].status
      ]_vars

\* C10: whenever no approve/reject is in flight, every item has as many
\* approval rows as status updates applied to it, and no item is APPROVED or
\* REJECTED without a row.
C10_RecordPerTransition ==
    (\A s \in Slots : req[s].pc = "idle") =>
        \A c \in DOMAIN content_items :
            /\ ApprovalsOf(c) = n_updates[c]
            /\ content_items[c].status \in Decisions => ApprovalsOf(c) > 0

\* C11: an approve or reject request by a caller whose role is not approver_a
\* or approver_b is answered 403 in its first step: no status is updated, no
\* approval row is inserted and the request does not go on to the insert.
C11_NonApproverRefused ==
    [][ \A p \in Profiles, d \in Decisions,
           c \in ContentIds \cup {UnknownContentId}, m \in Comments,
           f \in UpdateFaults :
          (p.role \notin ApproverRoles /\ DecisionUpdate(Worker, d, c, m, p, f)) =>
              /\ content_items' = content_items
              /\ approvals' = approvals
              /\ n_updates' = n_updates
              /\ req'[Worker].pc = "idle"
              /\ response'[Worker].kind = "forbidden"
              /\ response'[Worker].http = 403
      ]_vars

\* a creator's approve of a pending item was refused after an approver's
\* reject of the other item went through
C11_Witness ==
    /\ response[Worker].kind = "forbidden"
    /\ response[Worker].decision = "APPROVED"
    /\ response[Worker].content_id = "c1"
    /\ content_items["c1"].status = "PENDING"
    /\ content_items["c2"].status = "REJECTED"
    /\ Len(approvals) = 1

-----------------------------------------------------------------------------
(* Properties of the chunker *)

\* the text has a character that trimming keeps
\* the value a document holds under key, or default
Lookup(d, key, default) == IF key \in DOMAIN d THEN d[key] ELSE default

HasVisible(text) == \E i \in 1..Len(text) : SubSeq(text, i, i) \notin Whitespace

SectionLabels ==
    { "tone.description", "tone.dos", "tone.donts", "messaging.value_props",
      "messaging.taglines", "messaging.forbidden_claims",
      "messaging.preferred_terms", "messaging.forbidden_terms",
      "style_rules.reading_level", "style_rules.length_guidelines",
      "visual.colors", "visual.logo_rules", "visual.typography",
      "visual.image_style", "visual.notes", "examples.good", "examples.bad",
      "approval_checklist", "assumptions" }

\* the list field `field` of the section `key` of the manual, [] when absent
ListOf(manual, key, field) == Lookup(Lookup(manual, key, EmptyDict), field, << >>)

\* the rendered text of a section of the manual: a list joined by newlines, a
\* scalar as it is, examples as "type: text" blocks
RenderedText(manual, label) ==
    CASE label = "tone.description" ->
            Lookup(Lookup(manual, "tone", EmptyDict), "description", "")
      [] label = "tone.dos" -> Join("\n", ListOf(manual, "tone", "dos"))
      [] label = "tone.donts" -> Join("\n", ListOf(manual, "tone", "donts"))
      [] label = "messaging.value_props" ->
            Join("\n", ListOf(manual, "messaging", "value_props"))
      [] label = "messaging.taglines" ->
            Join("\n", ListOf(manual, "messaging", "taglines"))
      [] label = "messaging.forbidden_claims" ->
            Join("\n", ListOf(manual, "messaging", "forbidden_claims"))
      [] label = "messaging.preferred_terms" ->
            Join("\n", ListOf(manual, "messaging", "preferred_terms"))
      [] label = "messaging.forbidden_terms" ->
            Join("\n", ListOf(manual, "messaging", "forbidden_terms"))
      [] label = "style_rules.reading_level" ->
            Lookup(Lookup(manual, "style_rules", EmptyDict), "reading_level", "")
      [] label = "style_rules.length_guidelines" ->
            Join("\n", LengthLines(ListOf(manual, "style_rules", "length_guidelines")))
      [] label = "visual.colors" ->
            Join("\n", ListOf(manual, "visual_guidelines", "colors"))
      [] label = "visual.logo_rules" ->
            Join("\n", ListOf(manual, "visual_guidelines", "logo_rules"))
      [] label = "visual.typography" ->
            Join("\n", ListOf(manual, "visual_guidelines", "typography"))
      [] label = "visual.image_style" ->
            Join("\n", ListOf(manual, "visual_guidelines", "image_style"))
      [] label = "visual.notes" ->
            StrOrEmpty(ListOf(manual, "visual_guidelines", "notes"))
      [] label = "examples.good" ->
            Join("\n\n", GoodLines(ListOf(manual, "examples", "good")))
      [] label = "examples.bad" ->
            Join("\n\n", BadLines(ListOf(manual, "examples", "bad")))
      [] label = "approval_checklist" ->
            Join("\n", Lookup(manual, "approval_checklist", << >>))
      [] label = "assumptions" -> Join("\n", Lookup(manual, "assumptions", << >>))

ChunksLabelled(result, label) ==
    { i \in 1..Len(result.chunks) : result.chunks[i].section = label }

LabelsOf(key) ==
    CASE key = "tone" -> { l \in SectionLabels : startswith(l, "tone.") }
      [] key = "messaging" -> { l \in SectionLabels : startswith(l, "messaging.") }
      [] key = "style_rules" -> { l \in SectionLabels : startswith(l, "style_rules.") }
      [] key = "visual_guidelines" -> { l \in SectionLabels : startswith(l, "visual.") }
      [] key = "examples" -> { l \in SectionLabels : startswith(l, "examples.") }
      [] key = "approval_checklist" -> { "approval_checklist" }
      [] key = "assumptions" -> { "assumptions" }

TopLevelSections ==
    { "tone", "messaging", "style_rules", "visual_guidelines", "examples",
      "approval_checklist", "assumptions" }

\* C18: chunking never fails, whichever top-level sections the manual lacks:
\* an absent section gives no chunk and the sections present give theirs.
C18_AbsentSectionSkipped ==
    chunked # NotRun =>
        /\ chunked.ok
        /\ \A key \in TopLevelSections :
              key \notin DOMAIN document =>
                  \A l \in LabelsOf(key) : ChunksLabelled(chunked, l) = {}
        /\ \A l \in SectionLabels :
              HasVisible(RenderedText(document, l)) => ChunksLabelled(chunked, l) # {}

\* the entry is absent from the section, or the section from the manual, or
\* the entry is an empty list
NoItems(manual, key, field) == ListOf(manual, key, field) = << >>

\* only messaging.forbidden_terms = ["X"] is populated: every other entry is
\* empty, absent or at its schema default (reading_level "simple", notes None)
OnlyForbiddenTerms(manual) ==
    /\ ListOf(manual, "messaging", "forbidden_terms") = << "X" >>
    /\ \A f \in { "value_props", "taglines", "forbidden_claims", "preferred_terms" } :
          NoItems(manual, "messaging", f)
    /\ Lookup(Lookup(manual, "tone", EmptyDict), "description", "") = ""
    /\ NoItems(manual, "tone", "dos") /\ NoItems(manual, "tone", "donts")
    /\ Lookup(Lookup(manual, "style_rules", EmptyDict), "reading_level", "simple") = "simple"
    /\ NoItems(manual, "style_rules", "length_guidelines")
    /\ \A f \in { "colors", "logo_rules", "typography", "image_style", "notes" } :
          NoItems(manual, "visual_guidelines", f)
    /\ NoItems(manual, "examples", "good") /\ NoItems(manual, "examples", "bad")
    /\ Lookup(manual, "approval_checklist", << >>) = << >>
    /\ Lookup(manual, "assumptions", << >>) = << >>

ForbiddenTermsChunk ==
    [section |-> "messaging.forbidden_terms", chunk_text |-> "X",
     metadata |-> EmptyDict]

-----------------------------------------------------------------------------
(* Properties of the prompt assembler *)

\* sub occurs in text at position pos
OccursAt(text, sub, pos) ==
    pos >= 1 /\ pos + Len(sub) - 1 <= Len(text)
        /\ SubSeq(text, pos, pos + Len(sub) - 1) = sub

Contains(text, sub) == \E pos \in 1..(Len(text) + 1) : OccursAt(text, sub, pos)

\* from position pos on, text holds the i-th and later blocks "[section] text"
\* of the ranked chunks, each followed by one blank line and the next block
RECURSIVE BlocksFrom(_, _, _, _)
BlocksFrom(text, ranked, i, pos) ==
    IF i > Len(ranked) THEN TRUE
    ELSE LET block == "[" \o ranked[i].section \o "] " \o ranked[i].chunk_text
         IN  /\ OccursAt(text, block, pos)
             /\ i < Len(ranked) =>
                   /\ OccursAt(text, "\n\n", pos + Len(block))
                   /\ BlocksFrom(text, ranked, i + 1, pos + Len(block) + 2)

PromptUser == prompt_msgs[2].content
PromptSystem == prompt_msgs[1].content

\* C20: for each content type the assembled prompt holds the brief, holds the
\* ranked chunks as "[section] text" blocks in rank order with a blank line
\* between consecutive blocks, tells the generator to avoid forbidden terms
\* and claims, and tells it to return only the final text.
C20_PromptHoldsBriefContextInstructions ==
    prompt_msgs # << >> =>
        /\ Len(prompt_msgs) = 2
        /\ prompt_msgs[1].role = "system" /\ prompt_msgs[2].role = "user"
        /\ Contains(PromptUser, "Brief: " \o prompt_args.brief \o "\n")
        /\ \E pos \in 1..Len(PromptUser) :
              BlocksFrom(PromptUser, prompt_args.rag_chunks, 1, pos)
        /\ Contains(PromptSystem, "No uses términos ni claims prohibidos")
        /\ \/ Contains(PromptUser, "No usar forbidden_terms ni forbidden_claims")
           \/ Contains(PromptUser, "Evita forbidden_terms/claims")
           \/ Contains(PromptUser, "Evita elementos/claims prohibidos")
        /\ Contains(PromptUser, "Devuelve solo")

\* a video-script prompt built from three ranked chunks, one of them with a
\* text of two lines
C20_Witness ==
    /\ prompt_msgs # << >>
    /\ prompt_args.content_type = "video_script"
    /\ Len(prompt_args.rag_chunks) = 3
    /\ prompt_args.rag_chunks[1].section = "messaging.forbidden_terms"
    /\ prompt_args.rag_chunks[2].section = "tone.dos"
    /\ prompt_args.rag_chunks[3].section = "visual.logo_rules"
    /\ Contains(PromptUser,
          "[messaging.forbidden_terms] X\n\n[tone.dos] Habla claro\nSe breve\n\n[visual.logo_rules] Logo visible\n\nTarea")

-----------------------------------------------------------------------------
(* Properties of content generation *)

\* the generation request answered in this step
Generated == gen' # gen

\* the chunks indexed for the manual a generation for the brand selects
IndexedFor(brand_id) ==
    LET manual_id == brand_manuals[brand_id][Len(brand_manuals[brand_id])]
    IN  IF manual_id \in DOMAIN brand_manual_chunks
        THEN brand_manual_chunks[manual_id] ELSE << >>

\* the request got as far as the retrieval and the retrieval returned
RetrievalReturned(g) ==
    /\ g.exc \notin { "tracing", "embedding", "retrieval" }
    /\ brand_manuals[g.brand_id] # << >>

\* C14: a generation request whose retrieval returns fewer than 3 chunks
\* fails with the insufficient-context error (422); the generation provider
\* is not called for it and no content item is inserted.
C14_InsufficientContextStops ==
    [][ (Generated /\ RetrievalReturned(gen')
            /\ Len(IndexedFor(gen'.brand_id)) < 3) =>
          /\ gen'.kind = "insufficient_context"
          /\ gen'.http = 422
          /\ Len(gen'.retrieved) = Len(IndexedFor(gen'.brand_id))
          /\ \A i \in 1..Len(gen'.steps) : gen'.steps[i] \notin { "generate", "persist" }
          /\ gen'.prompt = << >>
          /\ content_items' = content_items
      ]_vars

\* the second request of the served route on a manual with two indexed
\* chunks was refused as well, and the store still holds its first items
C14_Witness ==
    /\ gen.kind = "insufficient_context"
    /\ gen.flow = "route.generate"
    /\ Len(gen.retrieved) = 2
    /\ gen.call = 2
    /\ DOMAIN content_items = DOMAIN InitialContentItems

PipelineOrder == << "embed", "retrieve", "rerank", "prompt", "generate", "persist" >>

\* C15: every successful generation request ran embed, retrieve, rerank,
\* assemble prompt, generate, persist in this order; the context block of the
\* prompt it sent and the chunks stored on its content item are the reranker's
\* output for the chunks it retrieved.
C15_PipelineOrderWithRerank ==
    gen.kind = "ok" =>
        LET ranked == rerank_chunks(gen.retrieved, gen.content_type, 6)
        IN  /\ gen.steps = PipelineOrder
            /\ \E pos \in 1..Len(gen.prompt[2].content) :
                  /\ OccursAt(gen.prompt[2].content, "Brand Manual (RAG):\n", pos - 20)
                  /\ BlocksFrom(gen.prompt[2].content, ranked, 1, pos)
            /\ [i \in 1..Len(content_items[gen.content_id].rag_chunks) |->
                    content_items[gen.content_id].rag_chunks[i].section]
                  = [i \in 1..Len(ranked) |-> ranked[i].section]

-----------------------------------------------------------------------------
(* Properties of the inbox *)

\* an inbox request answered in this step with a list
InboxAnswered == inbox_response' # inbox_response /\ inbox_response'.kind = "ok"

ItemsWhere(P(_)) == { c \in DOMAIN content_items : P(content_items[c]) }

IsPending(row) == row.status = "PENDING"

\* got is the newest rows of the set wanted, newest first, as many as 50
NewestOf(got, wanted) ==
    /\ \A i \in 1..Len(got) :
          /\ got[i].id \in wanted
          /\ got[i].status = content_items[got[i].id].status
          /\ got[i].created_at = content_items[got[i].id].created_at
    /\ \A i, j \in 1..Len(got) : i < j => got[i].created_at > got[j].created_at
    /\ Len(got) = Min(50, Cardinality(wanted))
    /\ \A c \in wanted :
          (\A i \in 1..Len(got) : got[i].id # c) =>
              \A i \in 1..Len(got) : content_items[c].created_at < got[i].created_at

\* C12: the inbox of an approver-role caller lists only items that are
\* PENDING when it is asked, whoever requested them, newest first, and at most
\* 50 of them, the 50 newest when more are pending; an approved or rejected
\* item is not listed.
C12_ApproverInboxPendingNewestFirst ==
    [][ (InboxAnswered /\ inbox_response'.caller.role \in ApproverRoles) =>
          NewestOf(inbox_response'.items, ItemsWhere(IsPending))
      ]_vars

\* an approver was answered 50 of 51 pending items, of both creators, and a
\* decided item newer than the oldest one listed is left out
C12_Witness ==
    /\ inbox_response.kind = "ok"
    /\ inbox_response.caller.role \in ApproverRoles
    /\ Len(inbox_response.items) = 50
    /\ Cardinality(ItemsWhere(IsPending)) > 50
    /\ \E c \in DOMAIN content_items :
          /\ content_items[c].status \in Decisions
          /\ content_items[c].created_at > inbox_response.items[50].created_at
          /\ \A i \in 1..50 : inbox_response.items[i].id # c
    /\ \A u \in { "u1", "u4" } :
          \E i \in 1..50 : requested_by[inbox_response.items[i].id] = u
    /\ \A i \in 1..50 : content_items[inbox_response.items[i].id].status = "PENDING"

\* C13: the inbox of a creator-role caller lists the items generated at that
\* caller's request and no other creator's: the newest 50 of them, newest
\* first.
C13_CreatorInboxOwnItems ==
    [][ (InboxAnswered /\ inbox_response'.caller.role = "creator") =>
          NewestOf(inbox_response'.items,
                   { c \in DOMAIN content_items :
                        requested_by[c] = inbox_response'.caller.id })
      ]_vars

-----------------------------------------------------------------------------
(* Frame of the content items *)

\* the status update of an approve or reject request for item c ran in this
\* step
DecisionUpdated(c) ==
    \E s \in Slots :
        /\ req[s].pc = "idle"
        /\ req'[s].pc = "insert"
        /\ req'[s].content_id = c
        /\ req'[s].profile.role \in ApproverRoles
        /\ content_items'[c] = [content_items[c] EXCEPT !.status = req'[s].decision]

\* a generation request that inserted item c was answered in this step
GenerationInserted(c) ==
    /\ gen' # gen
    /\ gen'.kind = "ok"
    /\ gen'.content_id = c

\* C16: an item enters the store only in a successful generation step and
\* with status PENDING; an item in the store changes only in the status
\* update of an approve or reject request for it, and only in its status;
\* inbox, audit, manual-creation and generation steps leave every stored item
\* as it is; no item leaves the store.
C16_ItemsCreatedPendingChangedOnlyByDecisions ==
    [][ /\ DOMAIN content_items \subseteq DOMAIN content_items'
        /\ \A c \in DOMAIN content_items' \ DOMAIN content_items :
              GenerationInserted(c) /\ content_items'[c].status = "PENDING"
        /\ \A c \in DOMAIN content_items :
              content_items'[c] # content_items[c] => DecisionUpdated(c)
        /\ ( \/ inbox_response' # inbox_response
             \/ audit_response' # audit_response
             \/ audit_images' # audit_images
             \/ manual_req' # manual_req
             \/ brand_manuals' # brand_manuals
             \/ brand_manual_chunks' # brand_manual_chunks
             \/ gen' # gen ) =>
              \A c \in DOMAIN content_items : content_items'[c] = content_items[c]
      ]_vars

\* after an audit, two generations, a manual creation, an approval of c2 and
\* an inbox: c1 is as it was stored, c2 differs in its status alone, the
\* generated items are PENDING
C16_Witness ==
    /\ audit_images # << >>
    /\ gen.call = 2 /\ gen.kind = "ok"
    /\ manual_req.kind = "ok"
    /\ brand_manual_chunks # InitialManualChunks
    /\ inbox_response.kind = "ok"
    /\ Len(approvals) = 1
    /\ content_items["c1"] = InitialContentItems["c1"]
    /\ content_items["c2"] = [InitialContentItems["c2"] EXCEPT !.status = "APPROVED"]
    /\ DOMAIN content_items = { "c1", "c2", "c3", "c4" }
    /\ content_items["c3"].status = "PENDING"
    /\ content_items["c4"].status = "PENDING"

-----------------------------------------------------------------------------
(* Properties of the reranker's order *)

\* the reference bonus: 25 for visual.* under image_prompt, 10 for tone.*
\* under video_script, 10 for value props and for preferred terms under
\* product_description
ReferenceBonus(section, ctype) ==
    CASE ctype = "image_prompt" /\ startswith(section, "visual.") -> 25
      [] ctype = "video_script" /\ startswith(section, "tone.") -> 10
      [] ctype = "product_description"
           /\ ( \/ startswith(section, "messaging.value_props")
                \/ startswith(section, "messaging.preferred_terms") ) -> 10
      [] OTHER -> 0

\* the reference score: (section_weight x 1000) + (similarity x 100) + bonus
ReferenceScore(c, ctype) ==
    TableWeight(c) * 1000 + SimOrZero(c) + ReferenceBonus(c.section, ctype)

\* seq is in non-increasing order of the reference score
ReferenceOrdered(seq, ctype) ==
    \A p, q \in 1..Len(seq) :
        p < q => ReferenceScore(seq[p], ctype) >= ReferenceScore(seq[q], ctype)

\* the elements of seq whose key is v, in their order in seq
WithKey(seq, Key(_), v) == SelectSeq(seq, LAMBDA c : Key(c) = v)

\* C26: the order rerank returns is that of the first keep_k elements of the
\* stable descending sort by the reference score: the output is in
\* non-increasing reference score, no candidate left out has a higher
\* reference score than one that was kept, and candidates of one reference
\* score keep their input order.
C26_OrderIsReferenceSort ==
    rr_pc = "done" =>
        LET Ref(c) == ReferenceScore(c, content_type)
        IN  /\ ReferenceOrdered(reranked, content_type)
            /\ \A d \in Dropped : \A p \in 1..Len(reranked) : Ref(reranked[p]) >= Ref(d)
            /\ \A p \in 1..Len(reranked) :
                  IsPrefix(WithKey(reranked, Ref, Ref(reranked[p])),
                           WithKey(chunks, Ref, Ref(reranked[p])))

\* C27: in the output of rerank, candidates of one section are in
\* non-increasing order of similarity, a missing similarity counting as 0, and
\* the candidates of one score are in their input order.
C27_SameSectionBySimilarityTiesStable ==
    rr_pc = "done" =>
        LET Key(c) == score(c, content_type)
        IN  /\ \A p, q \in 1..Len(reranked) :
                  (p < q /\ reranked[p].section = reranked[q].section) =>
                      SimOrZero(reranked[p]) >= SimOrZero(reranked[q])
            /\ \A p \in 1..Len(reranked) :
                  IsPrefix(WithKey(reranked, Key, Key(reranked[p])),
                           WithKey(chunks, Key, Key(reranked[p])))

\* a call on a logo_rules chunk without similarity, then a forbidden_terms
\* and a forbidden_claims chunk of one score: the two came out first, in
\* their input order
C27_Witness ==
    /\ rr_pc = "done"
    /\ Len(chunks) = 3
    /\ chunks[1] = [section |-> "visual.logo_rules", similarity |-> <<>>]
    /\ chunks[2] = [section |-> "messaging.forbidden_terms", similarity |-> <<10>>]
    /\ chunks[3] = [section |-> "messaging.forbidden_claims", similarity |-> <<10>>]
    /\ reranked = << chunks[2], chunks[3], chunks[1] >>

\* the table entries a label starts with, once stripped as the lookup does
MatchingEntries(section) ==
    { i \in 1..Len(BASE_SECTION_WEIGHTS) :
        startswith(strip(section), BASE_SECTION_WEIGHTS[i][1]) }

\* the weight of the longest table entry the label starts with, 0 when it
\* starts with none
LongestPrefixWeight(section) ==
    IF MatchingEntries(section) = {} THEN 0
    ELSE LET longest == CHOOSE i \in MatchingEntries(section) :
                 \A j \in MatchingEntries(section) :
                     Len(BASE_SECTION_WEIGHTS[j][1]) <= Len(BASE_SECTION_WEIGHTS[i][1])
         IN  BASE_SECTION_WEIGHTS[longest][2]

\* C28: for every section label the weight rerank uses is the weight of the
\* longest table entry the label starts with, and 0 when it starts with none;
\* the scores rerank sorted by are made of that weight.
C28_FirstMatchIsLongestPrefix ==
    /\ \A p \in 1..Len(chunks) :
          weight_for_section(chunks[p].section) = LongestPrefixWeight(chunks[p].section)
    /\ rr_pc = "done" =>
          \A p, q \in 1..Len(reranked) :
              p < q =>
                  LongestPrefixWeight(reranked[p].section)
                          + TypeBonus(reranked[p].section, content_type)
                      >= LongestPrefixWeight(reranked[q].section)
                          + TypeBonus(reranked[q].section, content_type)

\* a label that extends a table entry was ranked, by the entry's weight, over
\* a label that is only the beginning of an entry
C28_Witness ==
    /\ rr_pc = "done"
    /\ Len(chunks) = 2
    /\ chunks[1].section = "visual.logo"
    /\ chunks[2].section = "style_rules.reading_level"
    /\ reranked = << chunks[2], chunks[1] >>

-----------------------------------------------------------------------------
(* Properties of the JSON extraction *)

\* the first balanced {...} substring of the text: from its first "{", if
\* that is closed again, to the "}" that closes it
RECURSIVE MatchOf(_, _, _)
MatchOf(text, pos, depth) ==
    IF pos > Len(text) THEN 0
    ELSE LET d == depth + (IF text[pos] = "{" THEN 1 ELSE 0)
                        - (IF text[pos] = "}" THEN 1 ELSE 0)
         IN  IF d = 0 THEN pos ELSE MatchOf(text, pos + 1, d)

BalancedStarts(text) ==
    { i \in 1..Len(text) :
        /\ text[i] = "{"
        /\ \A j \in 1..(i - 1) : text[j] # "{"
        /\ MatchOf(text, i, 0) > 0 }

FirstBalanced(text) ==
    LET i == CHOOSE i \in BalancedStarts(text) : \A j \in BalancedStarts(text) : i <= j
    IN  SubSeq(text, i, MatchOf(text, i, 0))

\* the tokens of a text are the JSON document toks
IsDocument(text) == IsObject(SelectSeq(text, LAMBDA x : x # " "))

\* what the claim expects of an extractor's result on a text that is not a
\* JSON document by itself
ExtractsFirstBalanced(result, text) ==
    IF BalancedStarts(text) # {} /\ IsDocument(FirstBalanced(text))
    THEN result.ok /\ result.value = SelectSeq(FirstBalanced(text), LAMBDA x : x # " ")
    ELSE ~result.ok

\* C21: on an answer that is not valid JSON by itself both extractors return
\* the parse of its first balanced {...} substring, whatever follows that
\* substring, and fail when there is no object to extract.
C21_ExtractsFirstBalancedObject ==
    extracted # NotExtracted =>
        /\ ~IsDocument(StripTokens(llm_text)) =>
              ExtractsFirstBalanced(extracted.gemini, llm_text)
        /\ ~IsDocument(StripTokens(SelectSeq(llm_text, LAMBDA x : x # "F"))) =>
              ExtractsFirstBalanced(extracted.manual,
                                    SelectSeq(llm_text, LAMBDA x : x # "F"))

-----------------------------------------------------------------------------
(* Tracing and the primary flow *)

\* C22: a failing tracing call never changes the outcome of approve and
\* reject: no request is answered with the failure of a tracing call, and a
\* request whose approval row was inserted is answered with success.
C22_TracingNeverChangesOutcome ==
    [][ \A s \in Slots :
            response'[s] # response[s] =>
                /\ response'[s].exc \notin { "tracing", "tracing_end" }
                /\ approvals' # approvals => response'[s].kind = "ok"
      ]_vars

-----------------------------------------------------------------------------
(* Retrieval and manual versions *)

Last(seq) == seq[Len(seq)]

\* C25: every retrieval of the generation flow, of the brand audit and of
\* the content-item audit queries the chunks of the newest manual of the
\* brand concerned, never those of an older version.
C25_RetrievalQueriesNewestManual ==
    [][ /\ (gen' # gen /\ gen'.manual_id # "") =>
              gen'.manual_id = latest_manual(gen'.brand_id)
        /\ brand_audit_images' # brand_audit_images =>
              Last(brand_audit_images').brand_manual_id
                  = latest_manual(Last(brand_audit_images').subject)
        /\ audit_images' # audit_images =>
              Last(audit_images').brand_manual_id
                  = latest_manual(content_items[Last(audit_images').subject].brand_id)
      ]_vars

-----------------------------------------------------------------------------
(* Manual versions and their chunks *)

\* the manual has embedded chunks in the store
Indexed(manual_id) ==
    /\ manual_id \in DOMAIN brand_manual_chunks
    /\ brand_manual_chunks[manual_id] # << >>

\* C30: in every state the manual that generation and the brand audit select
\* for a brand, its newest, has its chunks in the store; so no generation
\* request is refused for insufficient context on a manual without chunks
\* while an older manual of the brand is indexed.
C30_LatestManualIsIndexed ==
    /\ \A b \in BrandIds :
          brand_manuals[b] # << >> => Indexed(latest_manual(b))
    /\ gen.kind = "insufficient_context" =>
          ~ ( /\ gen.retrieved = << >>
              /\ \E i \in 1..Len(brand_manuals[gen.brand_id]) :
                    Indexed(brand_manuals[gen.brand_id][i]) )

-----------------------------------------------------------------------------
(* Concurrent decisions *)

\* the approval rows of item c, in the order they were appended
DecisionHistory(c) == SelectSeq(approvals, LAMBDA a : a.content_item_id = c)

\* C29: under any interleaving of concurrent approve and reject requests on
\* one item, once every request has completed the item's status is the
\* decision of the approval row appended last for it.
C29_StatusIsLastDecision ==
    (\A s \in Slots : req[s].pc = "idle") =>
        \A c \in ContentIds :
            DecisionHistory(c) # << >> =>
                content_items[c].status
                    = DecisionHistory(c)[Len(DecisionHistory(c))].decision

-----------------------------------------------------------------------------
(* Persisted manuals *)

NoValue == [kind |-> "missing"]

\* the value a JSON object holds at <<section, key>> (section "" is the top
\* level), NoValue when it holds none
At(obj, path) ==
    IF obj.kind # "dict" THEN NoValue
    ELSE IF path[1] = ""
    THEN Lookup(obj.fields, path[2], NoValue)
    ELSE IF Lookup(obj.fields, path[1], NoValue).kind # "dict" THEN NoValue
    ELSE Lookup(obj.fields[path[1]].fields, path[2], NoValue)

ReadingLevelPath == << "style_rules", "reading_level" >>

\* every list-typed field is a list and the reading level one of the two
WellShaped(manual_json) ==
    /\ \A p \in ListPaths : At(manual_json, p).kind = "list"
    /\ At(manual_json, ReadingLevelPath) \in { VStr("simple"), VStr("medium") }

\* answers no normalisation brings to the shape: no object at all, a text
\* where a section belongs, a number as the reading level
CannotNormalize(output) ==
    \/ output.kind # "dict"
    \/ \E sec \in SectionNames \ { "examples" } :
          Lookup(output.fields, sec, NoValue) = VStr("n/a")
    \/ At(output, ReadingLevelPath).kind = "num"

C24_PersistedChecklistNonEmpty ==
    \A i \in 1..Len(manual_rows) :
        /\ At(manual_rows[i].manual_json, << "", "approval_checklist" >>).kind = "list"
        /\ Len(At(manual_rows[i].manual_json,
                  << "", "approval_checklist" >>).items) >= 1

====
